---- MODULE Spec2Model ----
(***************************************************************************)
(* A model of the Lox tree-walking interpreter of Ariyn/lox_interpreter:   *)
(* the scanner (Scanner.ScanTokens and its helpers), the interpreter       *)
(* (Interpreter.Interpret and its visitors) and the command-line driver    *)
(* (cmd/myinterpreter main and run).  Each of the three is a state machine *)
(* with its own initial predicate and next-state relation over the shared  *)
(* variables; SpecScan, SpecInterp and SpecMain are their specifications.  *)
(***************************************************************************)
EXTENDS Integers, Sequences, FiniteSets, TLC

VARIABLES
    s,        \* the Scanner struct: Source, Tokens, start, current, line
    scanPc,   \* position of ScanTokens: "idle", "loop" or "returned" ("cut")
    scanRet,  \* what ScanTokens handed to its caller, and the errors it dropped
    interp,   \* the Interpreter struct together with the heap it points into
    prog,     \* the statement list given to Interpret, and the position in it
    os        \* the driver process: argv, flags, stage, exit code, stdout

vars == <<s, scanPc, scanRet, interp, prog, os>>

(***************************************************************************)
(* Bounds of the model.                                                    *)
(***************************************************************************)
MaxSourceLen == 4
\* The longest number literal the scanner of the model reads.
MaxDigits == 8

(***************************************************************************)
(* token.go                                                                *)
(***************************************************************************)
LEFT_PAREN == "LEFT_PAREN"
RIGHT_PAREN == "RIGHT_PAREN"
LEFT_BRACE == "LEFT_BRACE"
RIGHT_BRACE == "RIGHT_BRACE"
COMMA == "COMMA"
DOT == "DOT"
MINUS == "MINUS"
PLUS == "PLUS"
SEMICOLON == "SEMICOLON"
SLASH == "SLASH"
STAR == "STAR"
BANG == "BANG"
BANG_EQUAL == "BANG_EQUAL"
EQUAL == "EQUAL"
EQUAL_EQUAL == "EQUAL_EQUAL"
GREATER == "GREATER"
GREATER_EQUAL == "GREATER_EQUAL"
LESS == "LESS"
LESS_EQUAL == "LESS_EQUAL"
IDENTIFIER == "IDENTIFIER"
STRING_T == "STRING"
NUMBER == "NUMBER"
AND == "ADD"
CLASS == "CLASS"
ELSE_T == "ELSE"
FALSE_T == "FALSE"
FUN == "FUN"
FOR == "FOR"
IF_T == "IF"
NIL == "NIL"
OR == "OR"
PRINT == "PRINT"
RETURN == "RETURN"
SUPER == "SUPER"
THIS == "THIS"
TRUE_T == "TRUE"
VAR == "VAR"
WHILE == "WHILE"
EOF == "EOF"

\* A Go string is modelled as the sequence of its bytes, each a one-character
\* string.
KeywordsMap ==
    [k \in { <<"A","N","D">>, <<"C","L","A","S","S">>, <<"E","L","S","E">>,
             <<"F","A","L","S","E">>, <<"F","O","R">>, <<"F","U","N">>,
             <<"I","F">>, <<"N","I","L">>, <<"O","R">>,
             <<"P","R","I","N","T">>, <<"R","E","T","U","R","N">>,
             <<"S","U","P","E","R">>, <<"T","H","I","S">>,
             <<"T","R","U","E">>, <<"V","A","R">>, <<"W","H","I","L","E">> } |->
        CASE k = <<"A","N","D">> -> AND
          [] k = <<"C","L","A","S","S">> -> CLASS
          [] k = <<"E","L","S","E">> -> ELSE_T
          [] k = <<"F","A","L","S","E">> -> FALSE_T
          [] k = <<"F","O","R">> -> FOR
          [] k = <<"F","U","N">> -> FUN
          [] k = <<"I","F">> -> IF_T
          [] k = <<"N","I","L">> -> NIL
          [] k = <<"O","R">> -> OR
          [] k = <<"P","R","I","N","T">> -> PRINT
          [] k = <<"R","E","T","U","R","N">> -> RETURN
          [] k = <<"S","U","P","E","R">> -> SUPER
          [] k = <<"T","H","I","S">> -> THIS
          [] k = <<"T","R","U","E">> -> TRUE_T
          [] k = <<"V","A","R">> -> VAR
          [] OTHER -> WHILE]

\* Token{Type, Lexeme, Literal, LineNumber}.  Literal is nil, a float64
\* (NUMBER) or a string (STRING).
NoLiteral == [kind |-> "nil", str |-> <<>>, mant |-> 0, scale |-> 0]
StringLiteral(text) == [kind |-> "string", str |-> text, mant |-> 0, scale |-> 0]
NumberLiteral(m, sc) == [kind |-> "float64", str |-> <<>>, mant |-> m, scale |-> sc]

Token(type, lexeme, literal, line) ==
    [Type |-> type, Lexeme |-> lexeme, Literal |-> literal, LineNumber |-> line]

(***************************************************************************)
(* The scanner.                                                            *)
(***************************************************************************)
LowerCase == {"a","b","c","d","e","f","g","h","i","j","k","l","m",
              "n","o","p","q","r","s","t","u","v","w","x","y","z"}
UpperCase == {"A","B","C","D","E","F","G","H","I","J","K","L","M",
              "N","O","P","Q","R","S","T","U","V","W","X","Y","Z"}
Digits == {"0","1","2","3","4","5","6","7","8","9"}

DigitValue(c) ==
    CASE c = "0" -> 0 [] c = "1" -> 1 [] c = "2" -> 2 [] c = "3" -> 3
      [] c = "4" -> 4 [] c = "5" -> 5 [] c = "6" -> 6 [] c = "7" -> 7
      [] c = "8" -> 8 [] OTHER -> 9

\* peek and peekNext return the two-byte string `\0` (a backslash and a zero)
\* at the end of the source; the character tests look at its first byte.
EndMark == "\\0"
FirstByte(c) == IF c = EndMark THEN "\\" ELSE c

NewScanner(source) ==
    [Source |-> source, Tokens |-> <<>>, start |-> 0, current |-> 0, line |-> 1]

isAtEnd(sc) == sc.current >= Len(sc.Source)

isAlphabet(c) == FirstByte(c) \in LowerCase \cup UpperCase \cup {"_"}

isDigit(c) == FirstByte(c) \in Digits

isAlphaNumeric(c) == isAlphabet(c) \/ isDigit(c)

peek(sc) == IF isAtEnd(sc) THEN EndMark ELSE sc.Source[sc.current + 1]

peekNext(sc) ==
    IF sc.current + 1 >= Len(sc.Source) THEN EndMark ELSE sc.Source[sc.current + 2]

\* advance returns the byte at current; the scanner after it is advanced(sc).
advanceChar(sc) == sc.Source[sc.current + 1]
advance(sc) == [sc EXCEPT !.current = @ + 1]

matches(sc, next) == ~isAtEnd(sc) /\ sc.Source[sc.current + 1] = next
match(sc, next) == IF matches(sc, next) THEN [sc EXCEPT !.current = @ + 1] ELSE sc

addToken(sc, tokenType, literal) ==
    [sc EXCEPT !.Tokens =
        Append(@, Token(tokenType, SubSeq(sc.Source, sc.start + 1, sc.current),
                        literal, sc.line))]

RECURSIVE identifierLoop(_)
identifierLoop(sc) ==
    IF isAlphaNumeric(peek(sc)) THEN identifierLoop(advance(sc)) ELSE sc

identifierEnd(sc) ==
    LET text == SubSeq(sc.Source, sc.start + 1, sc.current)
    IN  IF text \in DOMAIN KeywordsMap
        THEN addToken(sc, KeywordsMap[text], NoLiteral)
        ELSE addToken(sc, IDENTIFIER, NoLiteral)

identifier(sc) == identifierEnd(identifierLoop(sc))

Least(S) == CHOOSE x \in S : \A y \in S : x <= y

\* for s.isDigit(s.peek()) { s.advance() }: current moves to the first
\* position that holds no digit.
digitsLoop(sc) ==
    [sc EXCEPT !.current =
        Least({j \in sc.current..Len(sc.Source) :
                  j = Len(sc.Source) \/ ~isDigit(sc.Source[j + 1])})]

\* strconv.ParseFloat of digits with an optional fraction.  The float64 is
\* named by the decimal it was read from, mant / 10^scale in lowest terms of
\* ten: two decimals of at most MaxDigits digits are the same float64 only
\* when they are the same decimal.  A longer literal is rounded by the code
\* to a float64 this naming cannot tell; the model stops there (cut).
RECURSIVE ParseDigits(_, _, _, _)
ParseDigits(text, i, mant, scale) ==
    IF i > Len(text) THEN [mant |-> mant, scale |-> scale]
    ELSE IF text[i] = "." THEN ParseDigits(text, i + 1, mant, 0)
    ELSE ParseDigits(text, i + 1, mant * 10 + DigitValue(text[i]),
                     IF scale < 0 THEN scale ELSE scale + 1)

RECURSIVE Normalise(_)
Normalise(f) ==
    IF f.scale > 0 /\ f.mant % 10 = 0
    THEN Normalise([mant |-> f.mant \div 10, scale |-> f.scale - 1])
    ELSE f

\* The digits of 2^1024 - 2^970, the least decimal that rounds to +Inf:
\* from it on strconv.ParseFloat returns ErrRange.
RangeLimit ==
    <<
      "1", "7", "9", "7", "6", "9", "3", "1", "3", "4", "8", "6", "2", "3", "1",
      "5", "8", "0", "7", "9", "3", "7", "2", "8", "9", "7", "1", "4", "0", "5",
      "3", "0", "3", "4", "1", "5", "0", "7", "9", "9", "3", "4", "1", "3", "2",
      "7", "1", "0", "0", "3", "7", "8", "2", "6", "9", "3", "6", "1", "7", "3",
      "7", "7", "8", "9", "8", "0", "4", "4", "4", "9", "6", "8", "2", "9", "2",
      "7", "6", "4", "7", "5", "0", "9", "4", "6", "6", "4", "9", "0", "1", "7",
      "9", "7", "7", "5", "8", "7", "2", "0", "7", "0", "9", "6", "3", "3", "0",
      "2", "8", "6", "4", "1", "6", "6", "9", "2", "8", "8", "7", "9", "1", "0",
      "9", "4", "6", "5", "5", "5", "5", "4", "7", "8", "5", "1", "9", "4", "0",
      "4", "0", "2", "6", "3", "0", "6", "5", "7", "4", "8", "8", "6", "7", "1",
      "5", "0", "5", "8", "2", "0", "6", "8", "1", "9", "0", "8", "9", "0", "2",
      "0", "0", "0", "7", "0", "8", "3", "8", "3", "6", "7", "6", "2", "7", "3",
      "8", "5", "4", "8", "4", "5", "8", "1", "7", "7", "1", "1", "5", "3", "1",
      "7", "6", "4", "4", "7", "5", "7", "3", "0", "2", "7", "0", "0", "6", "9",
      "8", "5", "5", "5", "7", "1", "3", "6", "6", "9", "5", "9", "6", "2", "2",
      "8", "4", "2", "9", "1", "4", "8", "1", "9", "8", "6", "0", "8", "3", "4",
      "9", "3", "6", "4", "7", "5", "2", "9", "2", "7", "1", "9", "0", "7", "4",
      "1", "6", "8", "4", "4", "4", "3", "6", "5", "5", "1", "0", "7", "0", "4",
      "3", "4", "2", "7", "1", "1", "5", "5", "9", "6", "9", "9", "5", "0", "8",
      "0", "9", "3", "0", "4", "2", "8", "8", "0", "1", "7", "7", "9", "0", "4",
      "1", "7", "4", "4", "9", "7", "7", "9", "2"
    >>

\* The number of zeros the text begins with.
leadingZeros(text) ==
    Least({i \in 0..Len(text) : i = Len(text) \/ text[i + 1] # "0"})

\* The position of the last digit before the point.
integerEnd(text) ==
    Least({i \in 0..Len(text) : i = Len(text) \/ text[i + 1] = "."})

\* The digits before the point, without leading zeros.
integerPart(text) == SubSeq(text, leadingZeros(text) + 1, integerEnd(text))

\* a < b for two digit strings of one length.
DigitsLess(a, b) ==
    \E i \in 1..Len(a) :
        /\ DigitValue(a[i]) < DigitValue(b[i])
        /\ \A j \in 1..(i - 1) : a[j] = b[j]

rangeError(text) ==
    LET digits == integerPart(text)
    IN  \/ Len(digits) > Len(RangeLimit)
        \/ Len(digits) = Len(RangeLimit) /\ ~DigitsLess(digits, RangeLimit)

\* The number of digits from the first that is not zero on.
significantDigits(text) ==
    Cardinality({i \in 1..Len(text) : text[i] # "." /\ i > leadingZeros(text)})

ParseFloat(text) ==
    IF rangeError(text)
    THEN [mant |-> 0, scale |-> 0, err |-> "value out of range", cut |-> FALSE]
    ELSE IF significantDigits(text) > MaxDigits
    THEN [mant |-> 0, scale |-> 0, err |-> "", cut |-> TRUE]
    ELSE LET raw == ParseDigits(text, 1, 0, -1)
             f == Normalise([mant |-> raw.mant,
                             scale |-> IF raw.scale < 0 THEN 0 ELSE raw.scale])
         IN  [mant |-> f.mant, scale |-> f.scale, err |-> "", cut |-> FALSE]

numberFraction(sc) ==
    IF peek(sc) = "." /\ isDigit(peekNext(sc)) THEN digitsLoop(advance(sc)) ELSE sc

\* f, err := strconv.ParseFloat(...); if err != nil { return err }
numberEnd(sc) ==
    LET f == ParseFloat(SubSeq(sc.Source, sc.start + 1, sc.current))
    IN  IF f.err # "" \/ f.cut THEN [sc |-> sc, err |-> f.err, cut |-> f.cut]
        ELSE [sc |-> addToken(sc, NUMBER, NumberLiteral(f.mant, f.scale)),
              err |-> "", cut |-> FALSE]

number(sc) == numberEnd(numberFraction(digitsLoop(sc)))

\* string returns the scanner and its error value ("" is a nil error).
RECURSIVE stringLoop(_)
stringLoop(sc) ==
    IF peek(sc) # "\"" /\ ~isAtEnd(sc)
    THEN stringLoop(advance(IF peek(sc) = "\n" THEN [sc EXCEPT !.line = @ + 1] ELSE sc))
    ELSE sc

stringEnd(sc) ==
    IF isAtEnd(sc)
    THEN [sc |-> sc, err |-> "Unterminated string", cut |-> FALSE]
    ELSE [sc |-> addToken(advance(sc), STRING_T,
                          StringLiteral(SubSeq(sc.Source, sc.start + 2, sc.current))),
          err |-> "", cut |-> FALSE]

string(sc) == stringEnd(stringLoop(sc))

RECURSIVE commentLoop(_)
commentLoop(sc) ==
    IF peek(sc) # "\n" /\ ~isAtEnd(sc) THEN commentLoop(advance(sc)) ELSE sc

\* scanToken after c := s.advance(): the scanner, the error scanToken returns
\* and the error s.string() or s.number() returned to it (which scanToken
\* does not look at); cut when the model cannot follow the step.
Scanned(sc) == [sc |-> sc, err |-> "", dropped |-> "", cut |-> FALSE]

\* s.string() and s.number() as statements: the error is not looked at.
called(r) == [sc |-> r.sc, err |-> "", dropped |-> r.err, cut |-> r.cut]

twoChar(sc, one, two) ==
    Scanned(IF matches(sc, "=") THEN addToken(match(sc, "="), two, NoLiteral)
            ELSE addToken(sc, one, NoLiteral))

scanTokenCase(c, sc) ==
    CASE c = "(" -> Scanned(addToken(sc, LEFT_PAREN, NoLiteral))
      [] c = ")" -> Scanned(addToken(sc, RIGHT_PAREN, NoLiteral))
      [] c = "{" -> Scanned(addToken(sc, LEFT_BRACE, NoLiteral))
      [] c = "}" -> Scanned(addToken(sc, RIGHT_BRACE, NoLiteral))
      [] c = "," -> Scanned(addToken(sc, COMMA, NoLiteral))
      [] c = "." -> Scanned(addToken(sc, DOT, NoLiteral))
      [] c = "-" -> Scanned(addToken(sc, MINUS, NoLiteral))
      [] c = "+" -> Scanned(addToken(sc, PLUS, NoLiteral))
      [] c = ";" -> Scanned(addToken(sc, SEMICOLON, NoLiteral))
      [] c = "*" -> Scanned(addToken(sc, STAR, NoLiteral))
      [] c = "!" -> twoChar(sc, BANG, BANG_EQUAL)
      [] c = "=" -> twoChar(sc, EQUAL, EQUAL_EQUAL)
      [] c = "<" -> twoChar(sc, LESS, LESS_EQUAL)
      [] c = ">" -> twoChar(sc, GREATER, GREATER_EQUAL)
      [] c = "/" -> Scanned(IF matches(sc, "/") THEN commentLoop(match(sc, "/"))
                            ELSE addToken(sc, SLASH, NoLiteral))
      [] c = " " -> Scanned(sc)
      [] c = "\r" -> Scanned(sc)
      [] c = "\t" -> Scanned(sc)
      [] c = "\n" -> Scanned([sc EXCEPT !.line = @ + 1])
      [] c = "\"" -> called(string(sc))
      [] c = "o" -> Scanned(IF matches(sc, "r") THEN addToken(match(sc, "r"), OR, NoLiteral)
                            ELSE sc)
      [] OTHER ->
            IF isDigit(c) THEN called(number(sc))
            ELSE IF isAlphabet(c) THEN Scanned(identifier(sc))
            ELSE [sc |-> sc, err |-> "Unexpected Character.", dropped |-> "", cut |-> FALSE]

scanToken(sc) == scanTokenCase(advanceChar(sc), advance(sc))

(***************************************************************************)
(* ScanTokens as a state machine: one step per iteration of its loop, and  *)
(* one for the EOF token and the return.  scanRet.Tokens is the value      *)
(* ScanTokens returns; scanRet.err is the error its caller receives (the   *)
(* method has no error result, so the caller never receives one);          *)
(* scanRet.dropped lists the non-nil errors scanToken and string returned  *)
(* that nothing looked at.                                                 *)
(***************************************************************************)
ScanAlphabet == {"o", "r", "a", "1", ".", "=", " ", "\n", "\"", "@", "/"}

RECURSIVE SeqsUpTo(_, _)
SeqsUpTo(S, n) ==
    IF n = 0 THEN {<<>>}
    ELSE LET shorter == SeqsUpTo(S, n - 1)
         IN  shorter \cup {Append(q, c) : q \in {x \in shorter : Len(x) = n - 1}, c \in S}

\* The lower-case spellings of the language's keywords (spec section 3).
Keywords ==
    { <<"a","n","d">>, <<"c","l","a","s","s">>, <<"e","l","s","e">>,
      <<"f","a","l","s","e">>, <<"f","u","n">>, <<"f","o","r">>, <<"i","f">>,
      <<"n","i","l">>, <<"o","r">>, <<"p","r","i","n","t">>,
      <<"r","e","t","u","r","n">>, <<"s","u","p","e","r">>, <<"t","h","i","s">>,
      <<"t","r","u","e">>, <<"v","a","r">>, <<"w","h","i","l","e">>,
      <<"b","r","e","a","k">> }

\* Two number literals: one past the range of float64 (1 and 309 zeros) and
\* one of more digits than the model reads.
LongNumbers ==
    {[i \in 1..(Len(RangeLimit) + 1) |-> IF i = 1 THEN "1" ELSE "0"],
     [i \in 1..(MaxDigits + 1) |-> "1"]}

ScanSources == SeqsUpTo(ScanAlphabet, MaxSourceLen) \cup Keywords \cup LongNumbers

IdleScanner == NewScanner(<<>>)

\* An error value of the driver: its dynamic type ("nil" for no error) and
\* its message.
NoError == [type |-> "nil", message |-> ""]
IdleOs ==
    [Args |-> <<>>, pc |-> "idle", UseCrossAdd |-> FALSE, command |-> "", filename |-> "",
     err |-> NoError, logged |-> <<>>, stdout |-> <<>>, exit |-> -1]
IdleScanRet == [Tokens |-> <<>>, err |-> "", dropped |-> <<>>]

ScanTokensLoop ==
    /\ scanPc = "loop"
    /\ ~isAtEnd(s)
    /\ LET r == scanToken([s EXCEPT !.start = s.current])
       IN  /\ s' = r.sc
           /\ scanRet' = [scanRet EXCEPT !.dropped =
                             @ \o (IF r.err # "" THEN <<r.err>> ELSE <<>>)
                               \o (IF r.dropped # "" THEN <<r.dropped>> ELSE <<>>)]
           /\ scanPc' = IF r.cut THEN "cut" ELSE scanPc
    /\ UNCHANGED <<interp, prog, os>>

\* A ScanTokens that gives up, without the EOF token, when scanToken or
\* string returned an error.
ScanTokensReturnOnError ==
    /\ scanPc = "loop"
    /\ isAtEnd(s)
    /\ s' = IF scanRet.dropped = <<>>
            THEN [s EXCEPT !.Tokens = Append(@, Token(EOF, <<>>, NoLiteral, s.line))]
            ELSE s
    /\ scanRet' = [scanRet EXCEPT !.Tokens = s'.Tokens]
    /\ scanPc' = "returned"
    /\ UNCHANGED <<interp, prog, os>>

ScanTokensReturn ==
    /\ scanPc = "loop"
    /\ isAtEnd(s)
    /\ s' = [s EXCEPT !.Tokens = Append(@, Token(EOF, <<>>, NoLiteral, s.line))]
    /\ scanRet' = [scanRet EXCEPT !.Tokens = s'.Tokens]
    /\ scanPc' = "returned"
    /\ UNCHANGED <<interp, prog, os>>

(***************************************************************************)
(* The interpreter: runtime values.                                        *)
(*                                                                         *)
(* A Go interface{} value is a record of its dynamic type t and its        *)
(* payload: n for a bool (0/1) and for a pointer or reference (an address  *)
(* in the heap objs, or the identity of an AST node), s for a string.  A   *)
(* float64 is the fraction n / d in lowest terms, d a power of two, and z  *)
(* tells the zero -0 from the zero +0.  The model holds the float64 values *)
(* with |n| <= MaxNumber and d <= MaxDenominator; on them the arithmetic   *)
(* of float64 is exact, and an operation whose result is another float64   *)
(* cuts the evaluation off.                                                *)
(***************************************************************************)
MaxNumber == 30000
MaxDenominator == 1024

NoExpr == [k |-> "none"]
Nil == [t |-> "nil", n |-> 0, d |-> 1, z |-> FALSE, s |-> "", e |-> NoExpr]
Bool(b) ==
    [t |-> "bool", n |-> IF b THEN 1 ELSE 0, d |-> 1, z |-> FALSE, s |-> "", e |-> NoExpr]
Float(n, d, z) == [t |-> "float64", n |-> n, d |-> d, z |-> z, s |-> "", e |-> NoExpr]
Number(x) == Float(x, 1, FALSE)
String(x) == [t |-> "string", n |-> 0, d |-> 1, z |-> FALSE, s |-> x, e |-> NoExpr]
Ref(type, addr) == [t |-> type, n |-> addr, d |-> 1, z |-> FALSE, s |-> "", e |-> NoExpr]
\* An Expr interface value held as a runtime value: the pointer to the node
\* (its dynamic type and identity) and the node it points to.
ExprValue(node) ==
    [t |-> "*" \o node.k, n |-> node.id, d |-> 1, z |-> FALSE, s |-> "", e |-> node]

\* float64 arithmetic.  An operation yields the fraction and the sign of its
\* zero, and exact: whether the result is a float64 the model holds.
Abs(x) == IF x < 0 THEN -x ELSE x

RECURSIVE gcd(_, _)
gcd(a, b) == IF b = 0 THEN a ELSE gcd(b, a % b)

RECURSIVE isPowerOfTwo(_)
isPowerOfTwo(d) == d = 1 \/ (d > 1 /\ d % 2 = 0 /\ isPowerOfTwo(d \div 2))

\* num / den for den > 0; negative is the sign of the result when it is zero.
Quotient(num, den, negative) ==
    LET g == gcd(Abs(num), den)
        n == IF num < 0 THEN -(Abs(num) \div g) ELSE num \div g
        d == den \div g
    IN  [n |-> n, d |-> d, z |-> num = 0 /\ negative,
         exact |-> isPowerOfTwo(d) /\ Abs(n) <= MaxNumber /\ d <= MaxDenominator]

signbit(a) == a.n < 0 \/ a.z

floatNeg(a) == Quotient(-a.n, a.d, ~signbit(a))
floatAdd(a, b) == Quotient(a.n * b.d + b.n * a.d, a.d * b.d, a.z /\ b.z)
floatSub(a, b) ==
    Quotient(a.n * b.d - b.n * a.d, a.d * b.d, a.z /\ b.n = 0 /\ ~b.z)
floatMul(a, b) == Quotient(a.n * b.n, a.d * b.d, signbit(a) # signbit(b))
\* for b # 0
floatDiv(a, b) ==
    IF b.n < 0 THEN Quotient(-(a.n * b.d), -(a.d * b.n), signbit(a) # signbit(b))
    ELSE Quotient(a.n * b.d, a.d * b.n, signbit(a) # signbit(b))
floatLess(a, b) == a.n * b.d < b.n * a.d

\* int(v): the conversion truncates toward zero.
floatToInt(a) == IF a.n < 0 THEN -(Abs(a.n) \div a.d) ELSE a.n \div a.d

\* The dynamic types the Callable interface is implemented by.
CallableTypes == {"*LoxFunction", "*LoxClass", "*Clock"}

\* Go's == on two interface{} values: equal dynamic types and equal values;
\* comparing two values of one uncomparable dynamic type (a slice or a map)
\* is a run-time panic.
UncomparableTypes == {"listType", "dictType"}

InterfaceEqualPanics(left, right) == left.t = right.t /\ left.t \in UncomparableTypes

InterfaceEqual(left, right) ==
    /\ left.t = right.t
    /\ left.n = right.n
    /\ left.d = right.d
    /\ left.s = right.s

\* An error value with its dynamic type: nil (message ""), a
\* *RuntimeError{token, message, callstack}, or an error of another type
\* that carries a message only.
NilError == [type |-> "nil", message |-> "", lexeme |-> "", line |-> 0, callstack |-> <<>>]
NewRuntimeError(token, message, callstack) ==
    [type |-> "*RuntimeError", message |-> message, lexeme |-> token.Lexeme,
     line |-> token.LineNumber, callstack |-> callstack]
\* An error handed on as the environment or the resolver made it: return nil, err
UnwrappedError(message) == [NilError EXCEPT !.type = "error", !.message = message]

\* A name token of the parser, and the zero Token{}.
Name(lexeme, line) ==
    [Type |-> IDENTIFIER, Lexeme |-> lexeme, Literal |-> Nil, LineNumber |-> line]
\* An operator or keyword token of the parser, with the text it was scanned from.
Spelling(type) ==
    CASE type = PLUS -> "+" [] type = MINUS -> "-" [] type = STAR -> "*" [] type = SLASH -> "/"
      [] type = BANG -> "!" [] type = BANG_EQUAL -> "!=" [] type = EQUAL_EQUAL -> "=="
      [] type = LESS -> "<" [] type = LESS_EQUAL -> "<=" [] type = GREATER -> ">"
      [] type = GREATER_EQUAL -> ">=" [] type = RIGHT_PAREN -> ")"
      [] type = AND -> "and" [] type = OR -> "or" [] type = RETURN -> "return"
      [] type = THIS -> "this" [] type = SUPER -> "super"
      [] type = SEMICOLON -> ";" [] type = EQUAL -> "=" [] type = LEFT_PAREN -> "("
      [] type = LEFT_BRACE -> "{" [] type = RIGHT_BRACE -> "}"
      [] type = PRINT -> "print" [] type = VAR -> "var" [] type = CLASS -> "class"
      [] type = FUN -> "fun" [] type = IF_T -> "if" [] type = WHILE -> "while"
      [] type = TRUE_T -> "true" [] type = FALSE_T -> "false" [] type = DOT -> "."
      [] OTHER -> type
Op(type, line) ==
    [Type |-> type, Lexeme |-> Spelling(type), Literal |-> Nil, LineNumber |-> line]
ZeroToken == [Type |-> "", Lexeme |-> "", Literal |-> Nil, LineNumber |-> 0]

(***************************************************************************)
(* The syntax tree the parser hands over.  A node is a record whose k is   *)
(* the Go type of the node; id is the identity of the node (its address),  *)
(* which the locals table is keyed by.                                     *)
(***************************************************************************)
LiteralExpr(id, value) == [k |-> "LiteralExpr", id |-> id, value |-> value]
GroupingExpr(id, expression) == [k |-> "GroupingExpr", id |-> id, expression |-> expression]
UnaryExpr(id, operator, right) ==
    [k |-> "UnaryExpr", id |-> id, operator |-> operator, right |-> right]
BinaryExpr(id, left, operator, right) ==
    [k |-> "BinaryExpr", id |-> id, left |-> left, operator |-> operator, right |-> right]
LogicalExpr(id, left, operator, right) ==
    [k |-> "LogicalExpr", id |-> id, left |-> left, operator |-> operator, right |-> right]
TernaryExpr(id, condition, left, right) ==
    [k |-> "TernaryExpr", id |-> id, condition |-> condition, left |-> left, right |-> right]
VariableExpr(id, name) == [k |-> "VariableExpr", id |-> id, name |-> name]
AssignExpr(id, name, value) == [k |-> "AssignExpr", id |-> id, name |-> name, value |-> value]
CallExpr(id, callee, paren, arguments) ==
    [k |-> "CallExpr", id |-> id, callee |-> callee, paren |-> paren, arguments |-> arguments]
GetExpr(id, object, name) == [k |-> "GetExpr", id |-> id, object |-> object, name |-> name]
SetExpr(id, object, name, value) ==
    [k |-> "SetExpr", id |-> id, object |-> object, name |-> name, value |-> value]
ThisExpr(id, keyword) == [k |-> "ThisExpr", id |-> id, keyword |-> keyword]
SuperExpr(id, keyword, method) ==
    [k |-> "SuperExpr", id |-> id, keyword |-> keyword, method |-> method]
ListExpr(id, values) == [k |-> "ListExpr", id |-> id, values |-> values]
\* mapExpr is the Go map from key Token to value Expr.
DictionaryExpr(id, mapExpr) == [k |-> "DictionaryExpr", id |-> id, mapExpr |-> mapExpr]
SelectExpr(id, object, name) == [k |-> "SelectExpr", id |-> id, object |-> object, name |-> name]

NoNode == [k |-> "nil"]
ExpressionStmt(expression) == [k |-> "ExpressionStmt", expression |-> expression]
PrintStmt(expression) == [k |-> "PrintStmt", expression |-> expression]
VarStmt(name, initializer) == [k |-> "VarStmt", name |-> name, initializer |-> initializer]
BlockStmt(statements) == [k |-> "BlockStmt", statements |-> statements]
IfStmt(condition, thenBranch, elseBranch) ==
    [k |-> "IfStmt", condition |-> condition, thenBranch |-> thenBranch,
     elseBranch |-> elseBranch]
WhileStmt(id, condition, body) ==
    [k |-> "WhileStmt", id |-> id, condition |-> condition, body |-> body]
BreakStmt == [k |-> "BreakStmt"]
ReturnStmt(keyword, value) == [k |-> "ReturnStmt", keyword |-> keyword, value |-> value]
FunStmt(name, params, body) ==
    [k |-> "FunStmt", name |-> name, params |-> params, body |-> body]
ClassStmt(name, superClass, methods) ==
    [k |-> "ClassStmt", name |-> name, superClass |-> superClass, methods |-> methods]

(***************************************************************************)
(* The interpreter state.  A record st holds the fields of the Interpreter *)
(* struct (env, globals, currentLoop, breakCurrentLoop, isReturningValue,  *)
(* localsTable, callStack), the package variable useCrossAddition, the     *)
(* heap the pointers lead into (envs: the Environments, objs: functions,   *)
(* classes, instances, lists and dictionaries), standard output, and the   *)
(* result of the visitor that ran last: value and err, or panic when the   *)
(* Go runtime stopped the process, or hang when the evaluation was cut     *)
(* off at MaxSteps loop iterations and calls.                              *)
(***************************************************************************)
MaxSteps == 6

Failed(st) == st.err.message # "" \/ st.panic # "" \/ st.hang

\* return value, nil
Return(st, value) == [st EXCEPT !.value = value, !.err = NilError]
\* return nil, err
ReturnError(st, err) == [st EXCEPT !.value = Nil, !.err = err]
Panic(st, what) == [st EXCEPT !.value = Nil, !.panic = what]

\* The evaluation leaves what the model holds: it is cut off, as a run that
\* does not end is.
CutOff(st) == [st EXCEPT !.hang = TRUE, !.value = Nil]

\* One loop iteration or call more; the evaluation is cut off after MaxSteps.
Step(st) == IF st.steps >= MaxSteps THEN CutOff(st) ELSE [st EXCEPT !.steps = @ + 1]

\* return f, nil for the result f of an operation on float64.
ReturnFloat(st, f) == IF f.exact THEN Return(st, Float(f.n, f.d, f.z)) ELSE CutOff(st)

(***************************************************************************)
(* Environment: a frame Values with an Enclosing pointer (0 is nil).       *)
(***************************************************************************)
NoValues == [x \in {} |-> Nil]

\* NewEnvironment(enclosing): the new frame is the last of st.envs.
NewEnvironment(st, enclosing) ==
    [st EXCEPT !.envs = Append(@, [Values |-> NoValues, Enclosing |-> enclosing])]
Newest(st) == Len(st.envs)

Define(st, env, name, value) ==
    [st EXCEPT !.envs[env].Values = (name :> value) @@ @]

RECURSIVE Holder(_, _, _)
\* The nearest frame from env outwards that binds name, or 0.
Holder(st, env, name) ==
    IF env = 0 THEN 0
    ELSE IF name \in DOMAIN st.envs[env].Values THEN env
    ELSE Holder(st, st.envs[env].Enclosing, name)

RECURSIVE ancestor(_, _, _)
ancestor(st, env, distance) ==
    IF distance <= 0 \/ env = 0 THEN env
    ELSE ancestor(st, st.envs[env].Enclosing, distance - 1)

Undefined(name) == "Undefined variable '" \o name \o "'."

\* Get, GetAt, GetAtWithString: [value, err], err a message ("" is nil).
Get(st, env, name) ==
    LET h == Holder(st, env, name.Lexeme)
    IN  IF h = 0 THEN [value |-> Nil, err |-> Undefined(name.Lexeme)]
        ELSE [value |-> st.envs[h].Values[name.Lexeme], err |-> ""]

GetAtWithString(st, env, distance, name) ==
    LET a == ancestor(st, env, distance)
    IN  IF a = 0 \/ name \notin DOMAIN st.envs[a].Values
        THEN [value |-> Nil, err |-> Undefined(name)]
        ELSE [value |-> st.envs[a].Values[name], err |-> ""]

GetAt(st, env, distance, name) == GetAtWithString(st, env, distance, name.Lexeme)

\* Assign, AssignAt: [st, err].
Assign(st, env, name, value) ==
    LET h == Holder(st, env, name.Lexeme)
    IN  IF h = 0 THEN [st |-> st, err |-> Undefined(name.Lexeme)]
        ELSE [st |-> Define(st, h, name.Lexeme, value), err |-> ""]

AssignAt(st, env, distance, name, value) ==
    LET a == ancestor(st, env, distance)
    IN  IF a = 0 \/ name.Lexeme \notin DOMAIN st.envs[a].Values
        THEN [st |-> st, err |-> Undefined(name.Lexeme)]
        ELSE [st |-> Define(st, a, name.Lexeme, value), err |-> ""]

(***************************************************************************)
(* The heap of functions, classes, instances, lists and dictionaries.      *)
(***************************************************************************)
Alloc(st, object) == [st EXCEPT !.objs = Append(@, object)]
NewestObj(st) == Len(st.objs)

NoFields == [x \in {} |-> Nil]

\* NewFunction(declaration, closure, isInitializer)
NewFunction(st, declaration, closure, isInitializer) ==
    Alloc(st, [kind |-> "LoxFunction", declaration |-> declaration,
               closure |-> closure, isInitializer |-> isInitializer])

\* NewLoxClass(name, superclass, methods): superclass is an address or 0,
\* methods maps a method name to the address of its function.
NewLoxClass(st, name, superclass, methods) ==
    Alloc(st, [kind |-> "LoxClass", name |-> name, superclass |-> superclass,
               methods |-> methods])

NewLoxInstance(st, class) ==
    Alloc(st, [kind |-> "LoxInstance", class |-> class, fields |-> NoFields])

RECURSIVE findMethod(_, _, _)
\* The address of the method, or 0.
findMethod(st, class, name) ==
    IF class = 0 THEN 0
    ELSE IF name \in DOMAIN st.objs[class].methods THEN st.objs[class].methods[name]
    ELSE findMethod(st, st.objs[class].superclass, name)

\* LoxFunction.Bind(instance)
Bind(st, function, instance) ==
    LET f == st.objs[function]
        s1 == NewEnvironment(st, f.closure)
        s2 == Define(s1, Newest(s1), "this", instance)
    IN  NewFunction(s2, f.declaration, Newest(s1), f.isInitializer)

\* LoxInstance.Set(name, value)
InstanceSet(st, instance, name, value) ==
    [st EXCEPT !.objs[instance].fields = (name.Lexeme :> value) @@ @]

(***************************************************************************)
(* The interpreter: statements.  Every operator takes the node and the     *)
(* state st and yields the state after the Go method returned.             *)
(***************************************************************************)
RECURSIVE Accept(_, _), Evaluate(_, _), execute(_, _), blockLoop(_, _, _), whileLoop(_, _),
          classMethods(_, _, _, _), dictionaryLoop(_, _, _, _), listLoop(_, _, _, _),
          argumentsLoop(_, _, _, _), LoxFunctionCall(_, _, _)

isTruthy(value) == ~(value.t = "nil") /\ ~(value.t = "bool" /\ value.n = 0)

\* A block that restores the environment only on its normal way out.
executeBlockNoDefer(statements, env, st) ==
    LET previous == st.env
        s1 == blockLoop(statements, 1, [st EXCEPT !.env = env, !.value = Nil])
    IN  IF Failed(s1) THEN s1 ELSE [s1 EXCEPT !.env = previous]

\* The deferred i.env = previous runs on every way out.
executeBlock(statements, env, st) ==
    LET previous == st.env
        s1 == blockLoop(statements, 1, [st EXCEPT !.env = env, !.value = Nil])
    IN  [s1 EXCEPT !.env = previous]

\* for _, statement := range statements, from the idx-th statement on;
\* st.value is the named result value.
blockLoop(statements, idx, st) ==
    IF idx > Len(statements) THEN st
    ELSE LET s1 == execute(statements[idx], st)
         IN  CASE Failed(s1) \/ s1.isReturningValue -> s1
               [] OTHER -> blockLoop(statements, idx + 1, s1)

VisitVarStmt(expr, st) ==
    IF expr.initializer.k # "nil"
    THEN LET s1 == Evaluate(expr.initializer, st)
         IN  IF Failed(s1) THEN s1
             ELSE Return(Define(s1, s1.env, expr.name.Lexeme, s1.value), Nil)
    ELSE Return(Define(st, st.env, expr.name.Lexeme, Nil), Nil)

VisitFunStmt(expr, st) ==
    LET s1 == NewFunction(st, expr, st.env, FALSE)
    IN  Return(Define(s1, s1.env, expr.name.Lexeme, Ref("*LoxFunction", NewestObj(s1))), Nil)

\* for _, method := range stmt.methods: [st, methods]
classMethods(methods, idx, st, acc) ==
    IF idx > Len(methods) THEN [st |-> st, methods |-> acc]
    ELSE LET method == methods[idx]
             s1 == NewFunction(st, method, st.env, method.name.Lexeme = "init")
         IN  classMethods(methods, idx + 1, s1,
                          (method.name.Lexeme :> NewestObj(s1)) @@ acc)

\* VisitClassStmt from class := NewLoxClass(...) on; m is the methods map.
classAssign(stmt, superclass, m) ==
    LET s3 == NewLoxClass(m.st, stmt.name.Lexeme, superclass, m.methods)
        class == Ref("*LoxClass", NewestObj(s3))
        s4 == IF superclass # 0 THEN [s3 EXCEPT !.env = s3.envs[s3.env].Enclosing] ELSE s3
    IN  Return(Assign(s4, s4.env, stmt.name, class).st, class)

\* VisitClassStmt from the second Define on; superclass is an address or 0.
classBody(stmt, superclass, st) ==
    LET s1 == Define(st, st.env, stmt.name.Lexeme, Nil)
        s2 == IF stmt.superClass.k # "nil"
              THEN LET e == NewEnvironment(s1, s1.env)
                   IN  Define([e EXCEPT !.env = Newest(e)], Newest(e), "super",
                              Ref("*LoxClass", superclass))
              ELSE s1
    IN  classAssign(stmt, superclass, classMethods(stmt.methods, 1, s2, [x \in {} |-> 0]))

VisitClassStmt(stmt, st) ==
    LET s0 == Define(st, st.env, stmt.name.Lexeme, Nil)
    IN  IF stmt.superClass.k # "nil"
        THEN LET s1 == Evaluate(stmt.superClass, s0)
             IN  IF Failed(s1) THEN s1
                 ELSE IF s1.value.t # "*LoxClass"
                 THEN ReturnError(s1, NewRuntimeError(stmt.superClass.name,
                                      "Superclass must be a class.", s1.callStack))
                 ELSE classBody(stmt, s1.value.n, s1)
        ELSE classBody(stmt, 0, s0)

VisitExpressionStmt(expr, st) ==
    LET s1 == Evaluate(expr.expression, st)
    IN  IF Failed(s1) THEN s1 ELSE Return(s1, Nil)

VisitIfStmt(expr, st) ==
    LET s1 == Evaluate(expr.condition, st)
    IN  IF Failed(s1) THEN s1
        ELSE IF isTruthy(s1.value) THEN execute(expr.thenBranch, s1)
        ELSE IF expr.elseBranch.k # "nil" THEN execute(expr.elseBranch, s1)
        ELSE Return(s1, Nil)

\* for i.isTruthy(condition) { ... }; st.value is condition.
whileLoop(expr, st) ==
    IF ~isTruthy(st.value) THEN Return(st, Nil)
    ELSE LET s0 == Step(st)
             s1 == execute(expr.body, s0)
             s2 == Evaluate(expr.condition, s1)
         IN  CASE Failed(s0) -> s0
               [] Failed(s1) -> s1
               [] Failed(s2) -> s2
               [] OTHER -> whileLoop(expr, s2)

\* The deferred function clears currentLoop and breakCurrentLoop.
VisitWhileStmt(expr, st) ==
    LET s1 == Evaluate(expr.condition, [st EXCEPT !.currentLoop = expr.id])
        s2 == IF Failed(s1) THEN s1 ELSE whileLoop(expr, s1)
    IN  [s2 EXCEPT !.currentLoop = 0, !.breakCurrentLoop = FALSE]

\* A break statement that does not set the flag.
VisitBreakStmtIgnored(expr, st) == Return(st, Nil)

VisitBreakStmt(expr, st) == Return([st EXCEPT !.breakCurrentLoop = TRUE], Nil)

VisitReturnStmt(expr, st) ==
    IF expr.value.k # "nil"
    THEN LET s1 == Evaluate(expr.value, st)
         IN  IF Failed(s1) THEN s1 ELSE [s1 EXCEPT !.isReturningValue = TRUE]
    ELSE Return([st EXCEPT !.isReturningValue = TRUE], Nil)

VisitBlockStmt(expr, st) ==
    LET s1 == NewEnvironment(st, st.env)
    IN  executeBlock(expr.statements, Newest(s1), s1)

(***************************************************************************)
(* Stringify, and the ToString methods of the callables and instances.     *)
(***************************************************************************)
DigitChar(d) ==
    CASE d = 0 -> "0" [] d = 1 -> "1" [] d = 2 -> "2" [] d = 3 -> "3"
      [] d = 4 -> "4" [] d = 5 -> "5" [] d = 6 -> "6" [] d = 7 -> "7"
      [] d = 8 -> "8" [] OTHER -> "9"

RECURSIVE NatToString(_)
NatToString(x) ==
    IF x < 10 THEN DigitChar(x) ELSE NatToString(x \div 10) \o DigitChar(x % 10)

\* fmt's %d, and %.0f of an integral float64.
IntToString(x) == IF x < 0 THEN "-" \o NatToString(-x) ELSE NatToString(x)

\* fmt's %.0f of an integral float64: the zero -0 keeps its sign.
FormatInteger(d) == IF d.z THEN "-0" ELSE IntToString(d.n)

\* The decimal digits of rest / den, a fraction below one whose den is a
\* power of two.
RECURSIVE fractionDigits(_, _)
fractionDigits(rest, den) ==
    IF rest = 0 THEN ""
    ELSE DigitChar((rest * 10) \div den) \o fractionDigits((rest * 10) % den, den)

\* fmt's %g of a float64 that is not integral: the shortest decimal that
\* reads back as the float64, which for the float64 values of the model is
\* its exact decimal, without an exponent (they lie between 1e-4 and 1e6).
FormatShortest(d) ==
    (IF d.n < 0 THEN "-" ELSE "") \o NatToString(Abs(d.n) \div d.d) \o "."
        \o fractionDigits(Abs(d.n) % d.d, d.d)

\* Callable.ToString and LoxInstance.ToString
ObjToString(st, d) ==
    CASE d.t = "*LoxFunction" -> "<fn " \o st.objs[d.n].declaration.name.Lexeme \o ">"
      [] d.t = "*LoxClass" -> "<class " \o st.objs[d.n].name \o ">"
      [] d.t = "*Clock" -> "<native fn>"
      [] OTHER -> "<" \o st.objs[st.objs[d.n].class].name \o " instance>"

RECURSIVE Stringify(_, _), listToString(_, _, _)
\* toString of the elements of a list from the idx-th on.
listToString(st, elements, idx) ==
    IF idx > Len(elements) THEN ""
    ELSE (IF idx > 1 THEN ", " ELSE "") \o Stringify(st, elements[idx])
         \o listToString(st, elements, idx + 1)

\* toString(d), the default of Stringify.
toString(st, d) ==
    CASE d.t = "nil" -> "nil"
      [] d.t = "bool" -> IF d.n = 1 THEN "true" ELSE "false"
      [] d.t = "string" -> d.s
      [] d.t = "listType" -> "[" \o listToString(st, st.objs[d.n].elements, 1) \o "]"
      [] d.t = "dictType" -> "{...}"
      [] OTHER -> "&{" \o d.t \o "}"

Stringify(st, d) ==
    CASE d.t = "*LiteralExpr" -> Stringify(st, d.e.value)
      [] d.t = "float64" -> IF d.d = 1 THEN FormatInteger(d) ELSE FormatShortest(d)
      [] d.t \in CallableTypes -> ObjToString(st, d)
      [] d.t = "*LoxInstance" -> ObjToString(st, d)
      [] OTHER -> toString(st, d)

VisitPrintStmt(expr, st) ==
    LET s1 == Evaluate(expr.expression, st)
    IN  IF Failed(s1) THEN s1
        ELSE Return([s1 EXCEPT !.stdout = Append(@, Stringify(s1, s1.value))], Nil)

(***************************************************************************)
(* The interpreter: expressions.                                           *)
(***************************************************************************)
isAllNumber(possibles) == \A j \in 1..Len(possibles) : possibles[j].t = "float64"
isAllString(possibles) == \A j \in 1..Len(possibles) : possibles[j].t = "string"
isAllStringOrNumber(possibles) ==
    \A j \in 1..Len(possibles) : possibles[j].t \in {"string", "float64"}

\* lookupTable after the environment answered r: return nil, NewRuntimeError(name,
\* err.Error(), callStack) or return v, nil.
found(name, r, st) ==
    IF r.err # "" THEN ReturnError(st, NewRuntimeError(name, r.err, st.callStack))
    ELSE Return(st, r.value)

\* A lookup that walks the chain of environments from the current one, as
\* Environment.Get does, in place of the depth the resolver recorded.
lookupChain(name, expr, st) == found(name, Get(st, st.env, name), st)

lookupTable(name, expr, st) ==
    IF expr.id \in DOMAIN st.localsTable
    THEN found(name, GetAt(st, st.env, st.localsTable[expr.id], name), st)
    ELSE found(name, Get(st, st.globals, name), st)

\* VisitVariableExpr after v, err := i.lookupTable(expr.name, expr)
variableValue(s1) ==
    IF Failed(s1) THEN s1
    ELSE IF s1.value.t = "*LiteralExpr" THEN Return(s1, s1.value.e.value)
    ELSE s1

VisitVariableExpr(expr, st) == variableValue(lookupTable(expr.name, expr, st))

VisitThisExpr(expr, st) == lookupTable(expr.keyword, expr, st)

\* distance := i.localsTable[expr] is 0 for an expression the table lacks; the
\* errors of the environment are returned as they are.
VisitSuperExpr(expr, st) ==
    LET distance == IF expr.id \in DOMAIN st.localsTable THEN st.localsTable[expr.id] ELSE 0
        spc    == GetAtWithString(st, st.env, distance, "super")
        object == GetAtWithString(st, st.env, distance - 1, "this")
        method == findMethod(st, spc.value.n, expr.method.Lexeme)
        bound  == Bind(st, method, object.value)
    IN  CASE spc.err # "" -> ReturnError(st, UnwrappedError(spc.err))
          [] object.err # "" -> ReturnError(st, UnwrappedError(object.err))
          [] object.value.t # "*LoxInstance" ->
                ReturnError(st, NewRuntimeError(expr.keyword,
                                "Cannot use 'super' in a class with no superclass.",
                                st.callStack))
          [] spc.value.t # "*LoxClass" ->
                Panic(st, "interface conversion: interface {} is not *LoxClass")
          [] method = 0 ->
                ReturnError(st, NewRuntimeError(expr.method,
                                "Undefined property '" \o expr.method.Lexeme \o "'.",
                                st.callStack))
          [] OTHER -> Return(bound, Ref("*LoxFunction", NewestObj(bound)))

VisitLiteralExpr(expr, st) == Return(st, expr.value)

VisitGroupingExpr(expr, st) == Evaluate(expr.expression, st)

VisitAssignExpr(expr, st) ==
    LET s1 == Evaluate(expr.value, st)
        r  == IF expr.id \in DOMAIN s1.localsTable
              THEN AssignAt(s1, s1.env, s1.localsTable[expr.id], expr.name, s1.value)
              ELSE Assign(s1, s1.globals, expr.name, s1.value)
    IN  IF Failed(s1) THEN s1
        ELSE IF r.err # ""
        THEN ReturnError(s1, NewRuntimeError(expr.name, r.err, s1.callStack))
        ELSE Return(r.st, s1.value)

\* A logical expression that evaluates both operands before it chooses.
VisitLogicalExprEager(expr, st) ==
    LET s1 == Evaluate(expr.left, st)
        s2 == Evaluate(expr.right, s1)
    IN  IF Failed(s1) THEN s1
        ELSE IF Failed(s2) THEN s2
        ELSE IF expr.operator.Type = OR /\ isTruthy(s1.value) THEN Return(s2, s1.value)
        ELSE IF expr.operator.Type = AND /\ ~isTruthy(s1.value) THEN Return(s2, s1.value)
        ELSE s2

VisitLogicalExpr(expr, st) ==
    LET s1 == Evaluate(expr.left, st)
    IN  IF Failed(s1) THEN s1
        ELSE IF expr.operator.Type = OR /\ isTruthy(s1.value) THEN s1
        ELSE IF expr.operator.Type = AND /\ ~isTruthy(s1.value) THEN s1
        ELSE Evaluate(expr.right, s1)

VisitTernaryExpr(expr, st) ==
    LET s1 == Evaluate(expr.condition, st)
    IN  IF Failed(s1) THEN s1
        ELSE IF isTruthy(s1.value) THEN Evaluate(expr.left, s1)
        ELSE Evaluate(expr.right, s1)

VisitUnaryExpr(expr, st) ==
    LET s1 == Evaluate(expr.right, st)
    IN  IF Failed(s1) THEN s1
        ELSE CASE expr.operator.Type = MINUS ->
                    IF ~isAllNumber(<<s1.value>>)
                    THEN ReturnError(s1, NewRuntimeError(expr.operator,
                                         "Operand must be a number.", s1.callStack))
                    ELSE ReturnFloat(s1, floatNeg(s1.value))
               [] expr.operator.Type = BANG -> Return(s1, Bool(~isTruthy(s1.value)))
               [] OTHER -> Return(s1, Nil)

\* Go's < on two strings is the order of their bytes.  The strings the
\* model can order are those of SortedStrings, listed in that order; the
\* comparison of two different strings of which one is not listed cuts the
\* evaluation off.
SortedStrings == <<"", "1", "A", "a", "a1", "ab", "b", "g", "l", "x", "y">>
StringLess(a, b) ==
    \E x, y \in 1..Len(SortedStrings) :
        SortedStrings[x] = a /\ SortedStrings[y] = b /\ x < y
StringOrdered(a, b) ==
    a = b \/ \A c \in {a, b} : \E x \in 1..Len(SortedStrings) : SortedStrings[x] = c

\* return a < b, nil for two strings
ReturnLess(st, a, b, negate) ==
    IF StringOrdered(a, b) THEN Return(st, Bool(StringLess(a, b) # negate)) ELSE CutOff(st)

OperandsError(expr, st) ==
    ReturnError(st, NewRuntimeError(expr.operator,
                    "Operands must be two numbers or two strings.", st.callStack))

\* The switch of VisitBinaryExpr on the operator, both operands evaluated.
binaryOperator(expr, left, right, st) ==
    CASE expr.operator.Type = MINUS ->
            IF ~isAllNumber(<<left, right>>) THEN OperandsError(expr, st)
            ELSE ReturnFloat(st, floatSub(left, right))
      [] expr.operator.Type = SLASH ->
            IF ~isAllNumber(<<left, right>>) THEN OperandsError(expr, st)
            ELSE IF right.n = 0
            THEN ReturnError(st, NewRuntimeError(expr.operator, "Division by zero.",
                                                 st.callStack))
            ELSE ReturnFloat(st, floatDiv(left, right))
      [] expr.operator.Type = STAR ->
            IF ~isAllNumber(<<left, right>>) THEN OperandsError(expr, st)
            ELSE ReturnFloat(st, floatMul(left, right))
      [] expr.operator.Type = PLUS ->
            IF isAllNumber(<<left, right>>) THEN ReturnFloat(st, floatAdd(left, right))
            ELSE IF isAllString(<<left, right>>) THEN Return(st, String(left.s \o right.s))
            ELSE IF st.useCrossAddition /\ isAllStringOrNumber(<<left, right>>)
            THEN Return(st, String(Stringify(st, left) \o Stringify(st, right)))
            ELSE OperandsError(expr, st)
      [] expr.operator.Type = GREATER ->
            IF isAllNumber(<<left, right>>) THEN Return(st, Bool(floatLess(right, left)))
            ELSE IF isAllString(<<left, right>>)
            THEN ReturnLess(st, right.s, left.s, FALSE)
            ELSE OperandsError(expr, st)
      [] expr.operator.Type = GREATER_EQUAL ->
            IF isAllNumber(<<left, right>>) THEN Return(st, Bool(~floatLess(left, right)))
            ELSE IF isAllString(<<left, right>>)
            THEN ReturnLess(st, left.s, right.s, TRUE)
            ELSE OperandsError(expr, st)
      [] expr.operator.Type = LESS ->
            IF isAllNumber(<<left, right>>) THEN Return(st, Bool(floatLess(left, right)))
            ELSE IF isAllString(<<left, right>>)
            THEN ReturnLess(st, left.s, right.s, FALSE)
            ELSE OperandsError(expr, st)
      [] expr.operator.Type = LESS_EQUAL ->
            IF isAllNumber(<<left, right>>) THEN Return(st, Bool(~floatLess(right, left)))
            ELSE IF isAllString(<<left, right>>)
            THEN ReturnLess(st, right.s, left.s, TRUE)
            ELSE OperandsError(expr, st)
      [] expr.operator.Type = EQUAL_EQUAL ->
            IF InterfaceEqualPanics(left, right)
            THEN Panic(st, "runtime error: comparing uncomparable type " \o left.t)
            ELSE Return(st, Bool(InterfaceEqual(left, right)))
      [] expr.operator.Type = BANG_EQUAL ->
            IF InterfaceEqualPanics(left, right)
            THEN Panic(st, "runtime error: comparing uncomparable type " \o left.t)
            ELSE Return(st, Bool(~InterfaceEqual(left, right)))
      [] OTHER -> Return(st, Nil)

VisitBinaryExpr(expr, st) ==
    LET s1 == Evaluate(expr.left, st)
        s2 == Evaluate(expr.right, s1)
    IN  IF Failed(s1) THEN s1
        ELSE IF Failed(s2) THEN s2
        ELSE binaryOperator(expr, s1.value, s2.value, s2)

\* for _, v := range expr.values: [st, values]
listLoop(values, idx, st, acc) ==
    IF idx > Len(values) THEN [st |-> st, values |-> acc]
    ELSE LET s1 == Evaluate(values[idx], st)
         IN  IF Failed(s1) THEN [st |-> s1, values |-> acc]
             ELSE listLoop(values, idx + 1, s1, Append(acc, s1.value))

VisitListExpr(expr, st) ==
    LET r  == listLoop(expr.values, 1, st, <<>>)
        s1 == Alloc(r.st, [kind |-> "listType", elements |-> r.values])
    IN  IF Failed(r.st) THEN r.st ELSE Return(s1, Ref("listType", NewestObj(s1)))

\* The order in which range walks a Go map is not specified, and every
\* range statement draws its own: st.mapOrder lists the orders the range
\* statements to come take, each a number that selects one permutation of
\* the keys.  The evaluation is cut off at a range statement over two keys
\* or more when the list is used up.
RECURSIVE SetToSeq(_)
SetToSeq(S) ==
    IF S = {} THEN <<>>
    ELSE LET x == CHOOSE y \in S : TRUE IN <<x>> \o SetToSeq(S \ {x})

RECURSIVE Permute(_, _)
Permute(seq, p) ==
    IF Len(seq) = 0 THEN <<>>
    ELSE LET j == (p % Len(seq)) + 1
         IN  <<seq[j]>> \o Permute(SubSeq(seq, 1, j - 1) \o SubSeq(seq, j + 1, Len(seq)),
                                   p \div Len(seq))

MaxRanges == 2

RECURSIVE Factorial(_)
Factorial(n) == IF n <= 1 THEN 1 ELSE n * Factorial(n - 1)

\* The numbers of the orders of a map of so many keys.
MapOrders(keys) == 0..(Factorial(keys) - 1)
RangeOrder(map, order) == Permute(SetToSeq(DOMAIN map), order)

\* The nodes a node of the syntax tree holds.
Children(node) ==
    CASE node.k = "GroupingExpr" -> <<node.expression>>
      [] node.k = "UnaryExpr" -> <<node.right>>
      [] node.k \in {"BinaryExpr", "LogicalExpr"} -> <<node.left, node.right>>
      [] node.k = "TernaryExpr" -> <<node.condition, node.left, node.right>>
      [] node.k = "AssignExpr" -> <<node.value>>
      [] node.k = "CallExpr" -> <<node.callee>> \o node.arguments
      [] node.k = "GetExpr" -> <<node.object>>
      [] node.k = "SetExpr" -> <<node.object, node.value>>
      [] node.k = "ListExpr" -> node.values
      [] node.k = "DictionaryExpr" ->
            [j \in 1..Cardinality(DOMAIN node.mapExpr) |->
                node.mapExpr[SetToSeq(DOMAIN node.mapExpr)[j]]]
      [] node.k = "SelectExpr" -> <<node.object, node.name>>
      [] node.k \in {"ExpressionStmt", "PrintStmt"} -> <<node.expression>>
      [] node.k = "VarStmt" -> <<node.initializer>>
      [] node.k = "BlockStmt" -> node.statements
      [] node.k = "IfStmt" -> <<node.condition, node.thenBranch, node.elseBranch>>
      [] node.k = "WhileStmt" -> <<node.condition, node.body>>
      [] node.k = "ReturnStmt" -> <<node.value>>
      [] node.k = "FunStmt" -> node.body
      [] node.k = "ClassStmt" -> <<node.superClass>> \o node.methods
      [] OTHER -> <<>>

Greatest(S) == CHOOSE x \in S : \A y \in S : y <= x

\* The greatest number of keys of a dictionary literal among the nodes.
RECURSIVE dictionaryKeys(_)
dictionaryKeys(nodes) ==
    Greatest({0} \cup {IF nodes[j].k = "DictionaryExpr"
                       THEN Cardinality(DOMAIN nodes[j].mapExpr) ELSE 0 :
                          j \in 1..Len(nodes)}
                 \cup {dictionaryKeys(Children(nodes[j])) : j \in 1..Len(nodes)})

\* The orders the range statements of a run of the nodes can take, one
\* after the other.
RangeOrders(nodes) ==
    IF dictionaryKeys(nodes) < 2 THEN {<<>>}
    ELSE [1..MaxRanges -> MapOrders(dictionaryKeys(nodes))]

\* for k, v := range expr.mapExpr, from the idx-th key of the walk on:
\* [st, dict]
dictionaryLoop(expr, keys, idx, r) ==
    IF idx > Len(keys) THEN r
    ELSE LET k  == keys[idx]
             s1 == Evaluate(expr.mapExpr[k], r.st)
         IN  IF Failed(s1) THEN [st |-> s1, dict |-> r.dict]
             ELSE IF k.Lexeme \in DOMAIN r.dict
             THEN [st |-> ReturnError(s1, NewRuntimeError(k, "Duplicate key in dictionary.",
                                                       s1.callStack)),
                   dict |-> r.dict]
             ELSE dictionaryLoop(expr, keys, idx + 1,
                                 [st |-> s1, dict |-> (k.Lexeme :> s1.value) @@ r.dict])

\* VisitDictionaryExpr once the order of the walk is drawn.
dictionaryRange(expr, keys, st) ==
    LET r  == dictionaryLoop(expr, keys, 1, [st |-> st, dict |-> NoFields])
        s1 == Alloc(r.st, [kind |-> "dictType", entries |-> r.dict])
    IN  IF Failed(r.st) THEN r.st ELSE Return(s1, Ref("dictType", NewestObj(s1)))

VisitDictionaryExpr(expr, st) ==
    IF Cardinality(DOMAIN expr.mapExpr) < 2
    THEN dictionaryRange(expr, SetToSeq(DOMAIN expr.mapExpr), st)
    ELSE IF st.mapOrder = <<>> THEN CutOff(st)
    ELSE dictionaryRange(expr, RangeOrder(expr.mapExpr, Head(st.mapOrder)),
                         [st EXCEPT !.mapOrder = Tail(@)])

VisitSelectExpr(expr, st) ==
    LET s1 == Evaluate(expr.object, st)
        object == s1.value
        s2 == Evaluate(expr.name, s1)
        name == s2.value
    IN  IF Failed(s1) THEN s1
        ELSE IF object.t = "dictType"
        THEN IF Failed(s2) THEN s2
             ELSE IF name.t # "string"
             THEN ReturnError(s2, NewRuntimeError(ZeroToken,
                                  "Property name must be a string.", s2.callStack))
             ELSE IF name.s \in DOMAIN s2.objs[object.n].entries
             THEN Return(s2, s2.objs[object.n].entries[name.s])
             ELSE ReturnError(s2, NewRuntimeError(ZeroToken,
                                  "Undefined property '" \o name.s \o "'.", s2.callStack))
        ELSE IF object.t = "listType"
        THEN IF Failed(s2) THEN s2
             ELSE IF name.t # "float64"
             THEN ReturnError(s2, NewRuntimeError(ZeroToken, "Index must be a number.",
                                                  s2.callStack))
             ELSE IF floatToInt(name) < 0
                     \/ floatToInt(name) >= Len(s2.objs[object.n].elements)
             THEN ReturnError(s2, NewRuntimeError(ZeroToken,
                                  "Index out of range: " \o IntToString(floatToInt(name)),
                                  s2.callStack))
             ELSE Return(s2, s2.objs[object.n].elements[floatToInt(name) + 1])
        ELSE ReturnError(s1, NewRuntimeError(ZeroToken,
                             "Only dictionaries or list can have properties.", s1.callStack))

(***************************************************************************)
(* Callables: LoxFunction, LoxClass and Clock.                             *)
(***************************************************************************)
Arity(st, callable) ==
    CASE callable.t = "*LoxFunction" -> Len(st.objs[callable.n].declaration.params)
      [] callable.t = "*LoxClass" ->
            LET init == findMethod(st, callable.n, "init")
            IN  IF init = 0 THEN 0 ELSE Len(st.objs[init].declaration.params)
      [] OTHER -> 0

RECURSIVE defineParams(_, _, _, _, _)
defineParams(st, env, params, arguments, idx) ==
    IF idx > Len(params) THEN st
    ELSE defineParams(Define(st, env, params[idx].Lexeme, arguments[idx]),
                      env, params, arguments, idx + 1)

\* LoxFunction.Call: the body runs as a block in a new environment whose
\* parent is the closure; the call yields the returned value when
\* isReturningValue is set, this for an initializer, else nil.
\* functionReturn is the part after value, err := interpreter.executeBlock(...).
functionReturn(f, s3) ==
    LET this == GetAtWithString(s3, f.closure, 0, "this")
    IN  CASE Failed(s3) -> s3
          [] f.isInitializer /\ this.err # "" ->
                ReturnError(s3, NewRuntimeError(f.declaration.name, this.err, s3.callStack))
          [] f.isInitializer -> Return(s3, this.value)
          [] s3.isReturningValue -> s3
          [] OTHER -> Return(s3, Nil)

LoxFunctionCall(function, st, arguments) ==
    LET f  == st.objs[function]
        s1 == NewEnvironment(st, f.closure)
        s2 == defineParams(s1, Newest(s1), f.declaration.params, arguments, 1)
    IN  functionReturn(f, executeBlock(f.declaration.body, Newest(s1), s2))

\* LoxClass.Call: a new instance; init, if the class has one, is bound to it
\* and called with the arguments: initCall is initializer.Bind(instance).Call(...),
\* initReturn the return that follows it.
initReturn(s3, instance) == IF Failed(s3) THEN s3 ELSE Return(s3, instance)

initCall(s2, arguments, instance) ==
    initReturn(LoxFunctionCall(NewestObj(s2), s2, arguments), instance)

LoxClassCall(class, st, arguments) ==
    LET s1 == NewLoxInstance(st, class)
        instance == Ref("*LoxInstance", NewestObj(s1))
        init == findMethod(s1, class, "init")
    IN  IF init = 0 THEN Return(s1, instance)
        ELSE initCall(Bind(s1, init, instance), arguments, instance)

\* Clock.Call
ClockCall(st) == Return(st, Number(st.now))

Call(callable, st, arguments) ==
    CASE callable.t = "*LoxFunction" -> LoxFunctionCall(callable.n, st, arguments)
      [] callable.t = "*LoxClass" -> LoxClassCall(callable.n, st, arguments)
      [] OTHER -> ClockCall(st)

\* for _, argument := range expr.arguments: [st, arguments]
argumentsLoop(arguments, idx, st, acc) ==
    IF idx > Len(arguments) THEN [st |-> st, arguments |-> acc]
    ELSE LET s1 == Evaluate(arguments[idx], st)
         IN  IF Failed(s1) THEN [st |-> s1, arguments |-> acc]
             ELSE argumentsLoop(arguments, idx + 1, s1, Append(acc, s1.value))

\* A call that pops its entry only when the callee returned without error
\* (no deferred pop).
callBodyNoDefer(expr, st) ==
    LET s1 == Evaluate(expr.callee, st)
        callee == s1.value
        a  == argumentsLoop(expr.arguments, 1, s1, <<>>)
        s2 == a.st
        pushed == Step([s2 EXCEPT !.callStack = Append(@, callee)])
        s3 == IF Failed(pushed) THEN pushed ELSE Call(callee, pushed, a.arguments)
    IN  CASE Failed(s1) -> s1
          [] Failed(s2) -> s2
          [] callee.t \notin CallableTypes ->
                ReturnError(s2, NewRuntimeError(expr.paren,
                                "Can only call functions and classes.", s2.callStack))
          [] Len(a.arguments) # Arity(s2, callee) ->
                ReturnError(s2, NewRuntimeError(expr.paren,
                                "Expected " \o IntToString(Arity(s2, callee))
                                \o " arguments but got " \o IntToString(Len(a.arguments))
                                \o ".", s2.callStack))
          [] Failed(s3) -> s3
          [] OTHER -> [s3 EXCEPT !.callStack = SubSeq(@, 1, Len(@) - 1)]

\* A call that checks the callee before it evaluates the arguments.
callBodyCheckFirst(expr, st) ==
    LET s1 == Evaluate(expr.callee, st)
    IN  IF ~Failed(s1) /\ s1.value.t \notin CallableTypes
        THEN ReturnError(s1, NewRuntimeError(expr.paren,
                             "Can only call functions and classes.", s1.callStack))
        ELSE callBodyNoDefer(expr, st)

\* VisitCallExpr up to its return; the first deferred function follows.
callBody(expr, st) ==
    LET s1 == Evaluate(expr.callee, st)
        callee == s1.value
        a  == argumentsLoop(expr.arguments, 1, s1, <<>>)
        s2 == a.st
        pushed == Step([s2 EXCEPT !.callStack = Append(@, callee)])
        s3 == IF Failed(pushed) THEN pushed ELSE Call(callee, pushed, a.arguments)
    IN  CASE Failed(s1) -> s1
          [] Failed(s2) -> s2
          [] callee.t \notin CallableTypes ->
                ReturnError(s2, NewRuntimeError(expr.paren,
                                "Can only call functions and classes.", s2.callStack))
          [] Len(a.arguments) # Arity(s2, callee) ->
                ReturnError(s2, NewRuntimeError(expr.paren,
                                "Expected " \o IntToString(Arity(s2, callee))
                                \o " arguments but got " \o IntToString(Len(a.arguments))
                                \o ".", s2.callStack))
          [] OTHER -> [s3 EXCEPT !.callStack = SubSeq(@, 1, Len(@) - 1)]

VisitCallExpr(expr, st) == [callBody(expr, st) EXCEPT !.isReturningValue = FALSE]

\* LoxInstance.Get(name)
InstanceGet(st, instance, name) ==
    LET object == st.objs[instance]
        method == findMethod(st, object.class, name.Lexeme)
        bound  == Bind(st, method, Ref("*LoxInstance", instance))
    IN  IF name.Lexeme \in DOMAIN object.fields THEN Return(st, object.fields[name.Lexeme])
        ELSE IF method # 0 THEN Return(bound, Ref("*LoxFunction", NewestObj(bound)))
        ELSE ReturnError(st, NewRuntimeError(name,
                             "Undefined property '" \o name.Lexeme \o "'.", st.callStack))

VisitGetExpr(expr, st) ==
    LET s1 == Evaluate(expr.object, st)
    IN  IF Failed(s1) THEN s1
        ELSE IF s1.value.t = "*LoxInstance" THEN InstanceGet(s1, s1.value.n, expr.name)
        ELSE ReturnError(s1, NewRuntimeError(expr.name, "Only instances have properties.",
                                             s1.callStack))

VisitSetExpr(expr, st) ==
    LET s1 == Evaluate(expr.object, st)
    IN  IF Failed(s1) THEN s1
        ELSE IF s1.value.t # "*LoxInstance"
        THEN ReturnError(s1, NewRuntimeError(expr.name, "Only instances have fields.",
                                             s1.callStack))
        ELSE Return(InstanceSet(s1, s1.value.n, expr.name, ExprValue(expr.value)), Nil)

\* stmt.Accept(i) and expr.Accept(i): every node hands itself to the visitor
\* method of its own type, func (e *PrintStmt) Accept(v) { return v.VisitPrintStmt(e) }.
Accept(node, st) ==
    CASE node.k = "ExpressionStmt" -> VisitExpressionStmt(node, st)
      [] node.k = "PrintStmt" -> VisitPrintStmt(node, st)
      [] node.k = "VarStmt" -> VisitVarStmt(node, st)
      [] node.k = "BlockStmt" -> VisitBlockStmt(node, st)
      [] node.k = "IfStmt" -> VisitIfStmt(node, st)
      [] node.k = "WhileStmt" -> VisitWhileStmt(node, st)
      [] node.k = "BreakStmt" -> VisitBreakStmt(node, st)
      [] node.k = "ReturnStmt" -> VisitReturnStmt(node, st)
      [] node.k = "FunStmt" -> VisitFunStmt(node, st)
      [] node.k = "ClassStmt" -> VisitClassStmt(node, st)
      [] node.k = "LiteralExpr" -> VisitLiteralExpr(node, st)
      [] node.k = "GroupingExpr" -> VisitGroupingExpr(node, st)
      [] node.k = "UnaryExpr" -> VisitUnaryExpr(node, st)
      [] node.k = "BinaryExpr" -> VisitBinaryExpr(node, st)
      [] node.k = "LogicalExpr" -> VisitLogicalExpr(node, st)
      [] node.k = "TernaryExpr" -> VisitTernaryExpr(node, st)
      [] node.k = "VariableExpr" -> VisitVariableExpr(node, st)
      [] node.k = "AssignExpr" -> VisitAssignExpr(node, st)
      [] node.k = "CallExpr" -> VisitCallExpr(node, st)
      [] node.k = "GetExpr" -> VisitGetExpr(node, st)
      [] node.k = "SetExpr" -> VisitSetExpr(node, st)
      [] node.k = "ThisExpr" -> VisitThisExpr(node, st)
      [] node.k = "SuperExpr" -> VisitSuperExpr(node, st)
      [] node.k = "ListExpr" -> VisitListExpr(node, st)
      [] node.k = "DictionaryExpr" -> VisitDictionaryExpr(node, st)
      [] node.k = "SelectExpr" -> VisitSelectExpr(node, st)

\* execute: if i.breakCurrentLoop { return nil, nil }; return stmt.Accept(i)
execute(stmt, st) ==
    IF st.breakCurrentLoop THEN Return(st, Nil) ELSE Accept(stmt, st)

\* Evaluate: if i.breakCurrentLoop { return nil, nil }; return expr.Accept(i)
Evaluate(expr, st) ==
    IF st.breakCurrentLoop THEN Return(st, Nil) ELSE Accept(expr, st)

(***************************************************************************)
(* The resolver (spec section 4.4): a pass over the tree that records, for *)
(* every variable, assignment and this expression that refers to a local   *)
(* binding, the number of scopes between the reference and the binding.    *)
(* r holds the stack of scopes (name -> defined), the locals recorded so   *)
(* far, the errors found, and the function, class and loop context.        *)
(***************************************************************************)
NewResolver ==
    [scopes |-> <<>>, locals |-> [x \in {} |-> 0], errors |-> <<>>,
     function |-> "None", class |-> "None", loops |-> 0]

beginScope(r) == [r EXCEPT !.scopes = Append(@, [x \in {} |-> FALSE])]
endScope(r) == [r EXCEPT !.scopes = SubSeq(@, 1, Len(@) - 1)]

declare(r, name) ==
    IF Len(r.scopes) = 0 THEN r
    ELSE [r EXCEPT !.scopes[Len(r.scopes)] = (name :> FALSE) @@ @]

define(r, name) ==
    IF Len(r.scopes) = 0 THEN r
    ELSE [r EXCEPT !.scopes[Len(r.scopes)] = (name :> TRUE) @@ @]

resolveError(r, message) == [r EXCEPT !.errors = Append(@, message)]

\* if err != nil { return err }: the first error ends the pass.
Unresolved(r) == r.errors # <<>>

RECURSIVE resolveLocalFrom(_, _, _, _)
\* The innermost scope from the j-th downwards that holds name decides.
resolveLocalFrom(r, id, name, j) ==
    IF j = 0 THEN r
    ELSE IF name \in DOMAIN r.scopes[j]
    THEN [r EXCEPT !.locals = (id :> (Len(r.scopes) - j)) @@ @]
    ELSE resolveLocalFrom(r, id, name, j - 1)

resolveLocal(r, id, name) == resolveLocalFrom(r, id, name, Len(r.scopes))

RECURSIVE resolveExpr(_, _), resolveExprs(_, _, _), resolveStmt(_, _), resolveStmts(_, _, _),
          resolveMethods(_, _, _)

resolveExprs(exprs, idx, r) ==
    IF Unresolved(r) \/ idx > Len(exprs) THEN r
    ELSE resolveExprs(exprs, idx + 1, resolveExpr(exprs[idx], r))

resolveStmts(stmts, idx, r) ==
    IF Unresolved(r) \/ idx > Len(stmts) THEN r
    ELSE resolveStmts(stmts, idx + 1, resolveStmt(stmts[idx], r))

resolveVariable(expr, r) ==
    LET top == Len(r.scopes)
        own == top > 0 /\ expr.name.Lexeme \in DOMAIN r.scopes[top]
                       /\ ~r.scopes[top][expr.name.Lexeme]
        r1  == IF own
               THEN resolveError(r, "Can't read local variable in its own initializer.")
               ELSE r
    IN  IF own THEN r1 ELSE resolveLocal(r1, expr.id, expr.name.Lexeme)

resolveExpr(expr, r) ==
    CASE Unresolved(r) -> r
      [] expr.k = "LiteralExpr" -> r
      [] expr.k = "GroupingExpr" -> resolveExpr(expr.expression, r)
      [] expr.k = "UnaryExpr" -> resolveExpr(expr.right, r)
      [] expr.k \in {"BinaryExpr", "LogicalExpr"} ->
            resolveExprs(<<expr.left, expr.right>>, 1, r)
      [] expr.k = "TernaryExpr" ->
            resolveExprs(<<expr.condition, expr.left, expr.right>>, 1, r)
      [] expr.k = "VariableExpr" -> resolveVariable(expr, r)
      [] expr.k = "AssignExpr" ->
            LET r1 == resolveExpr(expr.value, r)
            IN  IF Unresolved(r1) THEN r1
                ELSE resolveLocal(r1, expr.id, expr.name.Lexeme)
      [] expr.k = "CallExpr" ->
            resolveExprs(<<expr.callee>> \o expr.arguments, 1, r)
      [] expr.k = "GetExpr" -> resolveExpr(expr.object, r)
      [] expr.k = "SetExpr" -> resolveExprs(<<expr.value, expr.object>>, 1, r)
      [] expr.k = "ThisExpr" ->
            IF r.class = "None"
            THEN resolveError(r, "Can't use 'this' outside of a class.")
            ELSE resolveLocal(r, expr.id, "this")
      [] expr.k = "SuperExpr" ->
            IF r.class = "None"
            THEN resolveError(r, "Can't use 'super' outside of a class.")
            ELSE IF r.class # "Subclass"
            THEN resolveError(r, "Can't use 'super' in a class with no superclass.")
            ELSE resolveLocal(r, expr.id, "super")
      [] expr.k = "ListExpr" -> resolveExprs(expr.values, 1, r)
      [] expr.k = "DictionaryExpr" ->
            resolveExprs([j \in 1..Len(SetToSeq(DOMAIN expr.mapExpr)) |->
                             expr.mapExpr[SetToSeq(DOMAIN expr.mapExpr)[j]]], 1, r)
      [] expr.k = "SelectExpr" -> resolveExprs(<<expr.object, expr.name>>, 1, r)

RECURSIVE declareParams(_, _, _)
declareParams(r, params, idx) ==
    IF idx > Len(params) THEN r
    ELSE declareParams(define(declare(r, params[idx].Lexeme), params[idx].Lexeme),
                       params, idx + 1)

\* A function or method: one scope for the parameters and the body; loops
\* outside the function do not enclose a break inside it.
resolveFunction(function, type, r) ==
    LET r1 == declareParams(beginScope([r EXCEPT !.function = type, !.loops = 0]),
                            function.params, 1)
        r2 == endScope(resolveStmts(function.body, 1, r1))
    IN  [r2 EXCEPT !.function = r.function, !.loops = r.loops]

resolveMethods(methods, idx, r) ==
    IF idx > Len(methods) THEN r
    ELSE IF Unresolved(r) THEN r
    ELSE resolveMethods(methods, idx + 1,
            resolveFunction(methods[idx],
                            IF methods[idx].name.Lexeme = "init" THEN "Initializer"
                            ELSE "Method", r))

resolveClass(stmt, r) ==
    LET r0 == define(declare([r EXCEPT !.class = "Class"], stmt.name.Lexeme),
                     stmt.name.Lexeme)
        hasSuper == stmt.superClass.k # "nil"
        r1 == IF hasSuper /\ stmt.superClass.name.Lexeme = stmt.name.Lexeme
              THEN resolveError(r0, "A class can't inherit from itself.")
              ELSE r0
        r2 == IF hasSuper
              THEN define(beginScope(resolveExpr(stmt.superClass,
                                                 [r1 EXCEPT !.class = "Subclass"])), "super")
              ELSE r1
        r3 == endScope(resolveMethods(stmt.methods, 1, define(beginScope(r2), "this")))
        r4 == IF hasSuper THEN endScope(r3) ELSE r3
    IN  [r4 EXCEPT !.class = r.class]

resolveStmt(stmt, r) ==
    CASE Unresolved(r) -> r
      [] stmt.k = "ExpressionStmt" -> resolveExpr(stmt.expression, r)
      [] stmt.k = "PrintStmt" -> resolveExpr(stmt.expression, r)
      [] stmt.k = "VarStmt" ->
            LET r1 == declare(r, stmt.name.Lexeme)
                r2 == IF stmt.initializer.k # "nil" THEN resolveExpr(stmt.initializer, r1)
                      ELSE r1
            IN  define(r2, stmt.name.Lexeme)
      [] stmt.k = "BlockStmt" -> endScope(resolveStmts(stmt.statements, 1, beginScope(r)))
      [] stmt.k = "IfStmt" ->
            LET r1 == resolveStmt(stmt.thenBranch, resolveExpr(stmt.condition, r))
            IN  IF stmt.elseBranch.k # "nil" THEN resolveStmt(stmt.elseBranch, r1) ELSE r1
      [] stmt.k = "WhileStmt" ->
            LET r1 == resolveExpr(stmt.condition, r)
                r2 == resolveStmt(stmt.body, [r1 EXCEPT !.loops = @ + 1])
            IN  [r2 EXCEPT !.loops = r.loops]
      [] stmt.k = "BreakStmt" ->
            IF r.loops = 0 THEN resolveError(r, "Break must be inside a loop.") ELSE r
      [] stmt.k = "ReturnStmt" ->
            LET r1 == IF r.function = "None"
                      THEN resolveError(r, "Can't return from top-level code.")
                      ELSE r
                r2 == IF stmt.value.k # "nil" /\ r.function = "Initializer"
                      THEN resolveError(r1, "Can't return a value from an initializer.")
                      ELSE r1
            IN  IF stmt.value.k # "nil" THEN resolveExpr(stmt.value, r2) ELSE r2
      [] stmt.k = "FunStmt" ->
            resolveFunction(stmt, "Function",
                            define(declare(r, stmt.name.Lexeme), stmt.name.Lexeme))
      [] stmt.k = "ClassStmt" -> resolveClass(stmt, r)

\* Resolver.Resolve(statements...)
Resolve(statements) == resolveStmts(statements, 1, NewResolver)

\* NewInterpreter(nil), with the locals the resolver recorded through
\* ResolveExpression.
NewInterpreter(locals, crossAdd, now) ==
    [env |-> 1, globals |-> 1,
     envs |-> <<[Values |-> ("clock" :> Ref("*Clock", 0)), Enclosing |-> 0]>>,
     objs |-> <<>>,
     currentLoop |-> 0, breakCurrentLoop |-> FALSE, isReturningValue |-> FALSE,
     localsTable |-> locals, callStack |-> <<>>,
     useCrossAddition |-> crossAdd,
     stdout |-> <<>>, value |-> Nil, err |-> NilError, panic |-> "", hang |-> FALSE,
     steps |-> 0, mapOrder |-> <<>>, now |-> now]

(***************************************************************************)
(* Interpret as a state machine: one step per statement of its loop, and   *)
(* one for its return.  prog.state is "parsed", "unresolved" (the resolver *)
(* reported prog.ret.err), "running", "returned" (prog.ret is what         *)
(* Interpret returned), "panicked" (the Go runtime stopped the process),   *)
(* "hung" (a statement was cut off at MaxSteps) or "reported" (run's       *)
(* caller asked the runtime error Interpret returned for its message:      *)
(* prog.report is the result of RuntimeError.Error).                       *)
(***************************************************************************)
IdleInterp == NewInterpreter([x \in {} |-> 0], FALSE, 0)
\* The result of RuntimeError.Error: the lines of the string it returns
\* (each ends with a newline in the string), or the panic it ended in.
NoReport == [lines |-> <<>>, panic |-> ""]

IdleProg ==
    [name |-> "", arg |-> <<>>, pc |-> 1, state |-> "idle",
     ret |-> [value |-> Nil, err |-> NilError], report |-> NoReport]

\* prog names the program by its family and parameters; Statements(prog) is
\* the statement list Interpret was called with.
LoadProgram(p) ==
    [name |-> p.name, arg |-> p.arg, pc |-> 1, state |-> "parsed",
     ret |-> [value |-> Nil, err |-> NilError], report |-> NoReport]

(***************************************************************************)
(* The programs of the model, as the parser builds them.                   *)
(***************************************************************************)
V(id, name) == VariableExpr(id, Name(name, 1))
L(value) == LiteralExpr(0, value)
Bin(left, type, right) == BinaryExpr(0, left, Op(type, 1), right)
CallOf(callee, arguments) == CallExpr(0, callee, Op(RIGHT_PAREN, 1), arguments)
Set(id, name, value) == ExpressionStmt(AssignExpr(id, Name(name, 1), value))
Fun(name, params, body) == FunStmt(Name(name, 1), params, body)

\* n = n + 1;
CountUp(id) == Set(id, "n", Bin(V(id + 1, "n"), PLUS, L(Number(1))))

\* A return inside a loop of a function:
\*     var n = 0;
\*     fun g() { return true; }
\*     fun f() { <loop> { n = n + 1; return <value>; } print "after"; }
\*     var r = f();
\*     print r;
\* where <loop> is while (<condition>), or the for loop
\* for (var i = 0; i < 1; i = i + 1) as the parser desugars it.
LoopConditions == {"n < 1", "true", "g()", "g() and n < 1"}
LoopCondition(c) ==
    CASE c = "n < 1" -> Bin(V(10, "n"), LESS, L(Number(1)))
      [] c = "true" -> L(Bool(TRUE))
      [] c = "g()" -> CallOf(V(11, "g"), <<>>)
      [] c = "g() and n < 1" ->
            LogicalExpr(0, CallOf(V(11, "g"), <<>>), Op(AND, 1),
                        Bin(V(10, "n"), LESS, L(Number(1))))

ReturnValues == {Number(7), String("a"), Nil}

LoopBody(value) ==
    BlockStmt(<<CountUp(20), ReturnStmt(Op(RETURN, 1), L(value))>>)

WhileLoop(c, value) == WhileStmt(1, LoopCondition(c), LoopBody(value))

ForLoop(value) ==
    BlockStmt(<<
        VarStmt(Name("i", 1), L(Number(0))),
        WhileStmt(2, Bin(V(30, "i"), LESS, L(Number(1))),
                  BlockStmt(<<LoopBody(value),
                              Set(31, "i", Bin(V(32, "i"), PLUS, L(Number(1))))>>))>>)

ReturnInLoop(loop, value) ==
    [name |-> "ReturnInLoop", arg |-> <<loop, value>>, crossAdd |-> FALSE,
     stmts |-> <<
        VarStmt(Name("n", 1), L(Number(0))),
        Fun("g", <<>>, <<ReturnStmt(Op(RETURN, 1), L(Bool(TRUE)))>>),
        Fun("f", <<>>, <<IF loop = "for" THEN ForLoop(value) ELSE WhileLoop(loop, value),
                         PrintStmt(L(String("after")))>>),
        VarStmt(Name("r", 1), CallOf(V(40, "f"), <<>>)),
        PrintStmt(V(41, "r"))>>]

ReturnInLoopPrograms ==
    {ReturnInLoop(loop, value) : loop \in LoopConditions \cup {"for"}, value \in ReturnValues}

\* Lexical scoping: a function declared in a block that later declares a
\* variable of the name the function uses.
\*   "print":   var a = <outer>; { fun f() { print a; } var a = <inner>; f(); }
\*   "nested":  var a = <outer>;
\*              { var a = "b"; { fun f() { print a; } var a = <inner>; f(); } }
\*   "assign":  var a = <outer>;
\*              { fun f() { a = "x"; } var a = <inner>; f(); print a; }
\*              print a;
ScopingForms == {"print", "nested", "assign"}
ScopingValues == {"g", "l"}

ScopingBlock(inner) ==
    BlockStmt(<<Fun("f", <<>>, <<PrintStmt(V(50, "a"))>>),
                VarStmt(Name("a", 1), L(String(inner))),
                ExpressionStmt(CallOf(V(51, "f"), <<>>))>>)

Scoping(form, outer, inner) ==
    [name |-> "Scoping", arg |-> <<form, outer, inner>>, crossAdd |-> FALSE,
     stmts |->
        CASE form = "print" ->
                <<VarStmt(Name("a", 1), L(String(outer))), ScopingBlock(inner)>>
          [] form = "nested" ->
                <<VarStmt(Name("a", 1), L(String(outer))),
                  BlockStmt(<<VarStmt(Name("a", 1), L(String("b"))), ScopingBlock(inner)>>)>>
          [] form = "assign" ->
                <<VarStmt(Name("a", 1), L(String(outer))),
                  BlockStmt(<<Fun("f", <<>>, <<Set(52, "a", L(String("x")))>>),
                              VarStmt(Name("a", 1), L(String(inner))),
                              ExpressionStmt(CallOf(V(53, "f"), <<>>)),
                              PrintStmt(V(54, "a"))>>),
                  PrintStmt(V(55, "a"))>>]

ScopingPrograms ==
    {Scoping(form, outer, inner) :
        form \in ScopingForms, outer \in ScopingValues, inner \in ScopingValues}

\* A property assignment:
\*     var n = 0;
\*     fun inc() { n = n + 1; return n; }
\*     class K {}
\*     var o = K();
\*     var r = (o.f = <value>);
\*     var g = o.f;
\*     print g;
SetFieldValues == {"7", "\"a\"", "1 + 2", "inc()", "n"}
SetFieldValue(v) ==
    CASE v = "7" -> LiteralExpr(60, Number(7))
      [] v = "\"a\"" -> LiteralExpr(61, String("a"))
      [] v = "1 + 2" -> BinaryExpr(62, L(Number(1)), Op(PLUS, 1), L(Number(2)))
      [] v = "inc()" -> CallExpr(63, V(64, "inc"), Op(RIGHT_PAREN, 1), <<>>)
      [] v = "n" -> V(65, "n")

SetField(v) ==
    [name |-> "SetField", arg |-> <<v>>, crossAdd |-> FALSE,
     stmts |-> <<
        VarStmt(Name("n", 1), L(Number(0))),
        Fun("inc", <<>>, <<CountUp(66), ReturnStmt(Op(RETURN, 1), V(68, "n"))>>),
        ClassStmt(Name("K", 1), NoNode, <<>>),
        VarStmt(Name("o", 1), CallOf(V(69, "K"), <<>>)),
        VarStmt(Name("r", 1), SetExpr(70, V(71, "o"), Name("f", 1), SetFieldValue(v))),
        VarStmt(Name("g", 1), GetExpr(72, V(73, "o"), Name("f", 1))),
        PrintStmt(V(74, "g"))>>]

SetFieldPrograms == {SetField(v) : v \in SetFieldValues}

\* Equality of two runtime values:
\*     class K {}
\*     fun f() {}
\*     fun h() {}
\*     var i1 = K();
\*     var i2 = K();
\*     var l1 = [1];
\*     var d1 = {x: 1};
\*     var r = <left> == <right>;
\*     var q = <left> != <right>;
Operands ==
    {"nil", "true", "false", "0", "1", "\"0\"", "\"a\"", "[1]", "[]", "l1", "{x: 1}",
     "d1", "f", "h", "clock", "K", "i1", "i2"}

XOne == (Name("x", 1) :> L(Number(1)))

Operand(o) ==
    CASE o = "nil" -> L(Nil)
      [] o = "true" -> L(Bool(TRUE))
      [] o = "false" -> L(Bool(FALSE))
      [] o = "0" -> L(Number(0))
      [] o = "1" -> L(Number(1))
      [] o = "\"0\"" -> L(String("0"))
      [] o = "\"a\"" -> L(String("a"))
      [] o = "[1]" -> ListExpr(0, <<L(Number(1))>>)
      [] o = "[]" -> ListExpr(0, <<>>)
      [] o = "{x: 1}" -> DictionaryExpr(0, XOne)
      [] OTHER -> V(80, o)

Equality(left, right) ==
    [name |-> "Equality", arg |-> <<left, right>>, crossAdd |-> FALSE,
     stmts |-> <<
        ClassStmt(Name("K", 1), NoNode, <<>>),
        Fun("f", <<>>, <<>>),
        Fun("h", <<>>, <<>>),
        VarStmt(Name("i1", 1), CallOf(V(81, "K"), <<>>)),
        VarStmt(Name("i2", 1), CallOf(V(82, "K"), <<>>)),
        VarStmt(Name("l1", 1), ListExpr(0, <<L(Number(1))>>)),
        VarStmt(Name("d1", 1), DictionaryExpr(0, XOne)),
        VarStmt(Name("r", 1), Bin(Operand(left), EQUAL_EQUAL,
                                  IF right \in Operands THEN Operand(right) ELSE L(Nil))),
        VarStmt(Name("q", 1), Bin(Operand(left), BANG_EQUAL,
                                  IF right \in Operands THEN Operand(right) ELSE L(Nil)))>>]

EqualityPrograms == {Equality(left, right) : left \in Operands, right \in Operands}

\* A dictionary literal of three entries, var d = {a: 1, <key>: 2, b: 3};
\* whose key tokens are on the lines <line1>, <line2> and 1.  The parser
\* fills the map of the DictionaryExpr entry by entry, mapExpr[key] = value.
RECURSIVE MapFromEntries(_, _, _)
MapFromEntries(entries, idx, map) ==
    IF idx > Len(entries) THEN map
    ELSE MapFromEntries(entries, idx + 1, (entries[idx].key :> entries[idx].value) @@ map)

DictKeys == {"a", "b", "c"}
DictLines == {1, 2}

DictEntries(line1, key, line2) ==
    <<[key |-> Name("a", line1), value |-> L(Number(1))],
      [key |-> Name(key, line2), value |-> L(Number(2))],
      [key |-> Name("b", 1), value |-> L(Number(3))]>>

DictLiteral(line1, key, line2) ==
    [name |-> "DictLiteral", arg |-> <<line1, key, line2>>, crossAdd |-> FALSE,
     stmts |-> <<
        VarStmt(Name("d", 1),
                DictionaryExpr(0, MapFromEntries(DictEntries(line1, key, line2), 1,
                                                 [x \in {} |-> NoNode])))>>]

DictLiteralPrograms ==
    {DictLiteral(line1, key, line2) :
        line1 \in DictLines, key \in DictKeys, line2 \in DictLines}

\* Programs the resolver rejects:
\*     return 1;      break;      { var a = a; }      print this;
\*     { var a = 1; print a; } return 1;
Unresolvables ==
    {"return 1;", "break;", "{ var a = a; }", "print this;",
     "{ var a = 1; print a; } return 1;"}

Unresolvable(text) ==
    [name |-> "Unresolvable", arg |-> <<text>>, crossAdd |-> FALSE,
     stmts |->
        CASE text = "return 1;" -> <<ReturnStmt(Op(RETURN, 1), L(Number(1)))>>
          [] text = "break;" -> <<BreakStmt>>
          [] text = "{ var a = a; }" -> <<BlockStmt(<<VarStmt(Name("a", 1), V(90, "a"))>>)>>
          [] text = "print this;" -> <<PrintStmt(ThisExpr(91, Op(THIS, 1)))>>
          [] text = "{ var a = 1; print a; } return 1;" ->
                <<BlockStmt(<<VarStmt(Name("a", 1), L(Number(1))), PrintStmt(V(92, "a"))>>),
                  ReturnStmt(Op(RETURN, 1), L(Number(1)))>>]

UnresolvablePrograms == {Unresolvable(text) : text \in Unresolvables}

\* An addition under either setting of useCrossAddition:
\*     print <left> + <right>;
Addends == {"\"a\"", "1", "nil"}

CrossAdd(crossAdd, left, right) ==
    [name |-> "CrossAdd", arg |-> <<crossAdd, left, right>>, crossAdd |-> crossAdd,
     stmts |-> <<PrintStmt(Bin(Operand(left), PLUS,
                               IF right \in Addends THEN Operand(right) ELSE L(Nil)))>>]

CrossAddPrograms ==
    {CrossAdd(crossAdd, left, right) :
        crossAdd \in BOOLEAN, left \in Addends, right \in Addends}

\* Classes, methods, this and super:
\*     class A { init() { this.tag = "A"; } m() { return "m of A"; } }
\*     class B < <base> { m() { return <body>; } }
\*     var b = B();
\*     print b.m();
MethodBases == {"A", "clock", "none"}
MethodBodies == {"super.m()", "this.m", "\"m of B\""}

MethodBody(body) ==
    CASE body = "super.m()" ->
            CallExpr(110, SuperExpr(111, Op(SUPER, 1), Name("m", 1)), Op(RIGHT_PAREN, 1), <<>>)
      [] body = "this.m" -> GetExpr(112, ThisExpr(113, Op(THIS, 1)), Name("m", 1))
      [] OTHER -> L(String("m of B"))

Methods(base, body) ==
    [name |-> "Methods", arg |-> <<base, body>>, crossAdd |-> FALSE,
     stmts |-> <<
        ClassStmt(Name("A", 1), NoNode,
                  <<Fun("init", <<>>,
                        <<ExpressionStmt(SetExpr(114, ThisExpr(115, Op(THIS, 1)),
                                                 Name("tag", 1), L(String("A"))))>>),
                    Fun("m", <<>>, <<ReturnStmt(Op(RETURN, 1), L(String("m of A")))>>)>>),
        ClassStmt(Name("B", 1), IF base = "none" THEN NoNode ELSE V(116, base),
                  <<Fun("m", <<>>, <<ReturnStmt(Op(RETURN, 1), MethodBody(body))>>)>>),
        VarStmt(Name("b", 1), CallOf(V(117, "B"), <<>>)),
        PrintStmt(CallOf(GetExpr(118, V(119, "b"), Name("m", 1)), <<>>))>>]

MethodsPrograms == {Methods(base, body) : base \in MethodBases, body \in MethodBodies}

\* A break in the inner one of two loops; c counts the evaluations of the
\* inner condition:
\*     var c = 0;
\*     var i = 0;
\*     while (i < 2) {
\*         i = i + 1;
\*         while ((c = c + 1) < 9) { <body> print "in"; }
\*         print i;
\*     }
\*     print "end";
\* where <body> is break; or if (true) break; or { break; print "skipped"; }
\* or print "first"; break;.  In the form "outer" the inner loop ends on its
\* condition, (c = c + 1) < 2, and the break is the outer loop's:
\*         while (...) { print "in"; }  break;  print i;
BreakForms == {"plain", "if", "block", "late", "outer"}

BreakBody(form) ==
    CASE form = "plain" -> <<BreakStmt>>
      [] form = "if" -> <<IfStmt(L(Bool(TRUE)), BreakStmt, NoNode)>>
      [] form = "block" -> <<BlockStmt(<<BreakStmt, PrintStmt(L(String("skipped")))>>)>>
      [] form = "late" -> <<PrintStmt(L(String("first"))), BreakStmt>>
      [] form = "outer" -> <<>>

InnerLoop(form) ==
    WhileStmt(4, Bin(AssignExpr(200, Name("c", 1), Bin(V(201, "c"), PLUS, L(Number(1)))),
                     LESS, L(Number(IF form = "outer" THEN 2 ELSE 9))),
              BlockStmt(BreakBody(form) \o <<PrintStmt(L(String("in")))>>))

Break(form) ==
    [name |-> "Break", arg |-> <<form>>, crossAdd |-> FALSE,
     stmts |-> <<
        VarStmt(Name("c", 1), L(Number(0))),
        VarStmt(Name("i", 1), L(Number(0))),
        WhileStmt(3, Bin(V(202, "i"), LESS, L(Number(2))),
                  BlockStmt(<<Set(203, "i", Bin(V(204, "i"), PLUS, L(Number(1)))),
                              InnerLoop(form)>>
                            \o (IF form = "outer" THEN <<BreakStmt>> ELSE <<>>)
                            \o <<PrintStmt(V(205, "i"))>>)),
        PrintStmt(L(String("end")))>>]

BreakPrograms == {Break(form) : form \in BreakForms}

\* A logical expression whose right operand counts its evaluations:
\*     var n = 0;
\*     var r = <a> or (n = n + 1);        (or: and)
\*     print r;
LogicalLefts == {Nil, Bool(FALSE), Bool(TRUE), Number(0), Number(7), String(""), String("s")}

Logical(operator, a) ==
    [name |-> "Logical", arg |-> <<operator, a>>, crossAdd |-> FALSE,
     stmts |-> <<
        VarStmt(Name("n", 1), L(Number(0))),
        VarStmt(Name("r", 2),
                LogicalExpr(210, L(a), Op(operator, 2),
                            AssignExpr(211, Name("n", 2),
                                       Bin(V(212, "n"), PLUS, L(Number(1)))))),
        PrintStmt(V(213, "r"))>>]

LogicalPrograms == {Logical(operator, a) : operator \in {OR, AND}, a \in LogicalLefts}

\* Calls that end normally and calls that end in a runtime error:
\*     fun g() { <g> }
\*     fun f() { <call>; <f> }
\*     fun h() { f(); }
\*     <top>
\* form     <g>         <call>    <f>     <top>
\* inner    -"x";       g()               f();
\* deep     -"x";       g()               h();
\* back     return 1;   g()       -"x";   f();
\* top      return 1;   g()               f(); -"x";
\* arity    return 1;   g(1)              f();
\* clock    return 1;   clock()   -"x";   f();
CallStackForms == {"inner", "deep", "back", "top", "arity", "clock"}

Fails(id) == ExpressionStmt(UnaryExpr(id, Op(MINUS, 3), L(String("x"))))

CallStack(form) ==
    [name |-> "CallStack", arg |-> <<form>>, crossAdd |-> FALSE,
     stmts |-> <<
        Fun("g", <<>>, IF form \in {"inner", "deep"} THEN <<Fails(220)>>
                       ELSE <<ReturnStmt(Op(RETURN, 1), L(Number(1)))>>),
        Fun("f", <<>>,
            <<ExpressionStmt(
                CASE form = "arity" -> CallOf(V(221, "g"), <<L(Number(1))>>)
                  [] form = "clock" -> CallOf(V(222, "clock"), <<>>)
                  [] OTHER -> CallOf(V(221, "g"), <<>>))>>
            \o (IF form \in {"back", "clock"} THEN <<Fails(223)>> ELSE <<>>)),
        Fun("h", <<>>, <<ExpressionStmt(CallOf(V(224, "f"), <<>>))>>),
        ExpressionStmt(CallOf(V(225, IF form = "deep" THEN "h" ELSE "f"), <<>>))>>
        \o (IF form = "top" THEN <<Fails(226)>> ELSE <<>>)]

CallStackPrograms == {CallStack(form) : form \in CallStackForms}

\* A statement inside a block, between a declaration and a use of a local:
\*     var a = "global";
\*     var n = 0;
\*     class B {}
\*     fun f() { { var a = "inner"; return 1; } }
\*     { var a = "outer"; <stmt> print a; }
\*     print a;                               (form gone: print z;)
\* form       <stmt>
\* block      { var a = "inner"; }
\* gone       { var z = "inner"; }
\* class      class K { m() {} }
\* subclass   class S < B { m() {} }
\* loop       while (n < 1) { n = n + 1; var a = "inner"; }
\* if         if (true) { var a = "inner"; }
\* break      while (true) { { var a = "inner"; break; } }
\* return     f();
\* error      { var a = "inner"; -"x"; }
\* badsuper   class S < n { m() {} }
EnvForms == {"block", "gone", "class", "subclass", "loop", "if", "break", "return",
             "error", "badsuper"}

Inner(name) == VarStmt(Name(name, 2), L(String("inner")))

EnvStmt(form) ==
    CASE form = "block" -> BlockStmt(<<Inner("a")>>)
      [] form = "gone" -> BlockStmt(<<Inner("z")>>)
      [] form = "class" -> ClassStmt(Name("K", 2), NoNode, <<Fun("m", <<>>, <<>>)>>)
      [] form = "subclass" -> ClassStmt(Name("S", 2), V(230, "B"), <<Fun("m", <<>>, <<>>)>>)
      [] form = "loop" ->
            WhileStmt(5, Bin(V(231, "n"), LESS, L(Number(1))),
                      BlockStmt(<<CountUp(232), Inner("a")>>))
      [] form = "if" -> IfStmt(L(Bool(TRUE)), BlockStmt(<<Inner("a")>>), NoNode)
      [] form = "break" ->
            WhileStmt(6, L(Bool(TRUE)), BlockStmt(<<BlockStmt(<<Inner("a"), BreakStmt>>)>>))
      [] form = "return" -> ExpressionStmt(CallOf(V(234, "f"), <<>>))
      [] form = "error" -> BlockStmt(<<Inner("a"), Fails(235)>>)
      [] form = "badsuper" -> ClassStmt(Name("S", 2), V(236, "n"), <<Fun("m", <<>>, <<>>)>>)

Env(form) ==
    [name |-> "Env", arg |-> <<form>>, crossAdd |-> FALSE,
     stmts |-> <<
        VarStmt(Name("a", 1), L(String("global"))),
        VarStmt(Name("n", 1), L(Number(0))),
        ClassStmt(Name("B", 1), NoNode, <<>>),
        Fun("f", <<>>, <<BlockStmt(<<Inner("a"), ReturnStmt(Op(RETURN, 1), L(Number(1)))>>)>>),
        BlockStmt(<<VarStmt(Name("a", 1), L(String("outer"))),
                    EnvStmt(form),
                    PrintStmt(V(237, "a"))>>),
        PrintStmt(V(238, IF form = "gone" THEN "z" ELSE "a"))>>]

EnvPrograms == {Env(form) : form \in EnvForms}

\* Calls that fail the callable check or the arity check; n records which
\* of the callee and the arguments were evaluated, and in which order:
\*     var n = 0;
\*     fun g(x) { print "body"; }
\*     class K { init(x) { print "body"; } }
\*     fun pick() { n = n * 10 + 1; return g; }
\*     fun f() { <call>; }
\*     f();
\* form     <call>
\* number   (n = n * 10 + 1)(n = n * 10 + 2, n = n * 10 + 3)
\* nil      nil(n = n * 10 + 2, n = n * 10 + 3)
\* few      pick()()
\* many     pick()(n = n * 10 + 2, n = n * 10 + 3)
\* class    K()
\* clock    clock(n = n * 10 + 2)
BadCallForms == {"number", "nil", "few", "many", "class", "clock"}

\* n = n * 10 + digit
Mark(id, digit) ==
    AssignExpr(id, Name("n", 1),
               Bin(Bin(V(id + 1, "n"), STAR, L(Number(10))), PLUS, L(Number(digit))))

BadCallExpr(form) ==
    CASE form = "number" -> CallOf(Mark(240, 1), <<Mark(242, 2), Mark(244, 3)>>)
      [] form = "nil" -> CallOf(L(Nil), <<Mark(242, 2), Mark(244, 3)>>)
      [] form = "few" -> CallOf(CallOf(V(246, "pick"), <<>>), <<>>)
      [] form = "many" -> CallOf(CallOf(V(246, "pick"), <<>>), <<Mark(242, 2), Mark(244, 3)>>)
      [] form = "class" -> CallOf(V(247, "K"), <<>>)
      [] form = "clock" -> CallOf(V(248, "clock"), <<Mark(242, 2)>>)

Body == <<PrintStmt(L(String("body")))>>

BadCall(form) ==
    [name |-> "BadCall", arg |-> <<form>>, crossAdd |-> FALSE,
     stmts |-> <<
        VarStmt(Name("n", 1), L(Number(0))),
        Fun("g", <<Name("x", 1)>>, Body),
        ClassStmt(Name("K", 1), NoNode, <<Fun("init", <<Name("x", 1)>>, Body)>>),
        Fun("pick", <<>>, <<ExpressionStmt(Mark(250, 1)),
                            ReturnStmt(Op(RETURN, 1), V(252, "g"))>>),
        Fun("f", <<>>, <<ExpressionStmt(BadCallExpr(form))>>),
        ExpressionStmt(CallOf(V(253, "f"), <<>>))>>]

BadCallPrograms == {BadCall(form) : form \in BadCallForms}

\* A runtime error under a stack of callables:
\*     fun g() { -"x"; }
\*     fun f() { g(); }
\*     class K { init() { <init> } m() { -"x"; } }
\*     class N {}
\*     <top>
\* form       <init>    <top>
\* top                  -"x";
\* function             f();
\* method               N(); K().m();        (form method: K has no init)
\* init       -"x";     K();
\* inclass    g();      K();
TraceForms == {"top", "function", "method", "init", "inclass"}

Trace(form) ==
    [name |-> "Trace", arg |-> <<form>>, crossAdd |-> FALSE,
     stmts |-> <<
        Fun("g", <<>>, <<Fails(260)>>),
        Fun("f", <<>>, <<ExpressionStmt(CallOf(V(261, "g"), <<>>))>>),
        ClassStmt(Name("K", 2), NoNode,
                  (CASE form = "init" -> <<Fun("init", <<>>, <<Fails(262)>>)>>
                     [] form = "inclass" ->
                           <<Fun("init", <<>>, <<ExpressionStmt(CallOf(V(263, "g"), <<>>))>>)>>
                     [] OTHER -> <<>>)
                  \o <<FunStmt(Name("m", 2), <<>>, <<Fails(264)>>)>>),
        ClassStmt(Name("N", 2), NoNode, <<>>),
        CASE form = "top" -> Fails(265)
          [] form = "function" -> ExpressionStmt(CallOf(V(266, "f"), <<>>))
          [] form = "method" ->
                ExpressionStmt(CallOf(GetExpr(267, CallOf(V(268, "K"), <<>>), Name("m", 3)),
                                      <<>>))
          [] OTHER -> ExpressionStmt(CallOf(V(268, "K"), <<>>))>>]

TracePrograms == {Trace(form) : form \in TraceForms}

\* A dictionary literal whose entry values have effects, or fail:
\*     var n = 0;
\*     var d = {a: (n = n * 10 + 1), b: (n = n * 10 + 2)};     (form effects)
\*     var d = {a: -"x", b: nil()};                            (form errors)
\*     var d = {a: (n = n * 10 + 1), b: (n = n * 10 + 2),
\*              c: (n = n * 10 + 3), d: (n = n * 10 + 4)};     (form four)
\*     fun mk() { return {a: (n = n * 10 + 1), b: (n = n * 10 + 2)}; }
\*     [mk(), mk()];                                           (form twice)
DictOrderForms == {"effects", "errors", "four", "twice"}

DictOrderEntries(form) ==
    CASE form = "errors" ->
            <<[key |-> Name("a", 1),
               value |-> UnaryExpr(274, Op(MINUS, 3), L(String("x")))],
              [key |-> Name("b", 1), value |-> CallOf(L(Nil), <<>>)]>>
      [] form = "four" ->
            <<[key |-> Name("a", 1), value |-> Mark(270, 1)],
              [key |-> Name("b", 1), value |-> Mark(272, 2)],
              [key |-> Name("c", 1), value |-> Mark(277, 3)],
              [key |-> Name("d", 1), value |-> Mark(279, 4)]>>
      [] OTHER ->
            <<[key |-> Name("a", 1), value |-> Mark(270, 1)],
              [key |-> Name("b", 1), value |-> Mark(272, 2)]>>

DictOrderLiteral(form) ==
    DictionaryExpr(0, MapFromEntries(DictOrderEntries(form), 1, [x \in {} |-> NoNode]))

DictOrder(form) ==
    [name |-> "DictOrder", arg |-> <<form>>, crossAdd |-> FALSE,
     stmts |-> <<VarStmt(Name("n", 1), L(Number(0)))>> \o
        (IF form = "twice"
         THEN <<Fun("mk", <<>>, <<ReturnStmt(Op(RETURN, 1), DictOrderLiteral(form))>>),
                ExpressionStmt(ListExpr(0, <<CallOf(V(275, "mk"), <<>>),
                                             CallOf(V(276, "mk"), <<>>)>>))>>
         ELSE <<VarStmt(Name("d", 1), DictOrderLiteral(form))>>)]

DictOrderPrograms == {DictOrder(form) : form \in DictOrderForms}

\* Arithmetic and comparisons whose results are no integers:
\*     print <expression>;
ArithmeticForms ==
    {"7 / 2", "-7 / 2", "-0", "0 * -1", "0 - 0", "1 / 3", "1.5 + 1.5", "[7, 8][3 / 2]",
     "\"x\" < \"y\"", "\"a\" + \"b\" < \"b\"", "\"A\" >= \"a\"", "\"p\" < \"q\"",
     "\"p\" <= \"p\""}

Negated(x) == UnaryExpr(310, Op(MINUS, 1), L(Number(x)))

ArithmeticExpr(form) ==
    CASE form = "7 / 2" -> Bin(L(Number(7)), SLASH, L(Number(2)))
      [] form = "-7 / 2" -> Bin(Negated(7), SLASH, L(Number(2)))
      [] form = "-0" -> Negated(0)
      [] form = "0 * -1" -> Bin(L(Number(0)), STAR, Negated(1))
      [] form = "0 - 0" -> Bin(L(Number(0)), MINUS, L(Number(0)))
      [] form = "1 / 3" -> Bin(L(Number(1)), SLASH, L(Number(3)))
      [] form = "1.5 + 1.5" -> Bin(L(Float(3, 2, FALSE)), PLUS, L(Float(3, 2, FALSE)))
      [] form = "[7, 8][3 / 2]" ->
            SelectExpr(311, ListExpr(0, <<L(Number(7)), L(Number(8))>>),
                       Bin(L(Number(3)), SLASH, L(Number(2))))
      [] form = "\"x\" < \"y\"" -> Bin(L(String("x")), LESS, L(String("y")))
      [] form = "\"a\" + \"b\" < \"b\"" ->
            Bin(Bin(L(String("a")), PLUS, L(String("b"))), LESS, L(String("b")))
      [] form = "\"A\" >= \"a\"" -> Bin(L(String("A")), GREATER_EQUAL, L(String("a")))
      [] form = "\"p\" < \"q\"" -> Bin(L(String("p")), LESS, L(String("q")))
      [] form = "\"p\" <= \"p\"" -> Bin(L(String("p")), LESS_EQUAL, L(String("p")))

Arithmetic(form) ==
    [name |-> "Arithmetic", arg |-> <<form>>, crossAdd |-> FALSE,
     stmts |-> <<PrintStmt(ArithmeticExpr(form))>>]

ArithmeticPrograms == {Arithmetic(form) : form \in ArithmeticForms}

InterpPrograms ==
    ReturnInLoopPrograms \cup ScopingPrograms \cup SetFieldPrograms
        \cup EqualityPrograms \cup DictLiteralPrograms \cup UnresolvablePrograms
        \cup CrossAddPrograms \cup MethodsPrograms \cup BreakPrograms \cup LogicalPrograms \cup CallStackPrograms \cup EnvPrograms \cup BadCallPrograms \cup TracePrograms \cup DictOrderPrograms \cup ArithmeticPrograms

Statements(p) ==
    CASE p.name = "ReturnInLoop" -> ReturnInLoop(p.arg[1], p.arg[2]).stmts
      [] p.name = "Scoping" -> Scoping(p.arg[1], p.arg[2], p.arg[3]).stmts
      [] p.name = "SetField" -> SetField(p.arg[1]).stmts
      [] p.name = "Equality" -> Equality(p.arg[1], p.arg[2]).stmts
      [] p.name = "DictLiteral" -> DictLiteral(p.arg[1], p.arg[2], p.arg[3]).stmts
      [] p.name = "Unresolvable" -> Unresolvable(p.arg[1]).stmts
      [] p.name = "CrossAdd" -> CrossAdd(p.arg[1], p.arg[2], p.arg[3]).stmts
      [] p.name = "Methods" -> Methods(p.arg[1], p.arg[2]).stmts
      [] p.name = "Break" -> Break(p.arg[1]).stmts
      [] p.name = "Logical" -> Logical(p.arg[1], p.arg[2]).stmts
      [] p.name = "CallStack" -> CallStack(p.arg[1]).stmts
      [] p.name = "Env" -> Env(p.arg[1]).stmts
      [] p.name = "BadCall" -> BadCall(p.arg[1]).stmts
      [] p.name = "Trace" -> Trace(p.arg[1]).stmts
      [] p.name = "DictOrder" -> DictOrder(p.arg[1]).stmts
      [] p.name = "Arithmetic" -> Arithmetic(p.arg[1]).stmts
      [] OTHER -> <<>>

\* run after err = resolver.Resolve(statements...): if err != nil { return err }
\* The interpreter keeps the depths the resolver handed over before it failed.
resolved(r) ==
    /\ prog' = IF r.errors # <<>>
               THEN [prog EXCEPT !.state = "unresolved",
                                 !.ret = [value |-> Nil,
                                          err |-> UnwrappedError(r.errors[1])]]
               ELSE [prog EXCEPT !.state = "running"]
    /\ interp' = [interp EXCEPT !.localsTable = r.locals]

\* run: resolver := NewResolver(interpreter); err = resolver.Resolve(statements...)
\* The resolver hands every depth it finds to Interpreter.ResolveExpression,
\* i.localsTable[expr] = depth; its first error ends run before Interpret.
runResolve ==
    /\ prog.state = "parsed"
    /\ resolved(Resolve(Statements(prog)))
    /\ UNCHANGED <<s, scanPc, scanRet, os>>

\* Interpret after value, _err = i.execute(stmt): if _err != nil { return nil, _err }
executed(s1) ==
    /\ interp' = [s1 EXCEPT !.mapOrder = <<>>, !.steps = 0]
    /\ prog' = IF s1.panic # "" THEN [prog EXCEPT !.state = "panicked"]
               ELSE IF s1.hang THEN [prog EXCEPT !.state = "hung"]
               ELSE IF s1.err.message # ""
               THEN [prog EXCEPT !.state = "returned",
                                 !.ret = [value |-> Nil, err |-> s1.err]]
               ELSE [prog EXCEPT !.pc = @ + 1]

\* value, _err = i.execute(stmt), and the return nil, err that follows a
\* non-nil _err.
InterpretLoop ==
    /\ prog.state = "running"
    /\ prog.pc <= Len(Statements(prog))
    /\ \E orders \in RangeOrders(Statements(prog)) :
          executed(execute(Statements(prog)[prog.pc],
                           [interp EXCEPT !.mapOrder = orders, !.steps = 0]))
    /\ UNCHANGED <<s, scanPc, scanRet, os>>

\* return value, err
InterpretReturn ==
    /\ prog.state = "running"
    /\ prog.pc > Len(Statements(prog))
    /\ prog' = [prog EXCEPT !.state = "returned",
                            !.ret = [value |-> interp.value, err |-> NilError]]
    /\ UNCHANGED <<s, scanPc, scanRet, interp, os>>

RECURSIVE Repeat(_, _)
\* strings.Repeat(str, count)
Repeat(str, count) == IF count = 0 THEN "" ELSE str \o Repeat(str, count - 1)

\* callstack += fmt.Sprintf(...): the line of one entry before the lines of
\* the entries below it.
callstackLine(line, below) ==
    IF below.panic # "" THEN below ELSE [lines |-> <<line>> \o below.lines, panic |-> ""]

RECURSIVE callstackToString(_, _, _)
\* RuntimeError.callstackToString from Go's index i = idx - 1 down to 0:
\* one line per entry, the last entry first.  c.(*LoxFunction) panics on
\* an entry of another dynamic type.
callstackToString(st, callstack, idx) ==
    IF idx = 0 THEN NoReport
    ELSE IF callstack[idx].t # "*LoxFunction"
    THEN [lines |-> <<>>,
          panic |-> "interface conversion: Callable is " \o callstack[idx].t
                    \o ", not *LoxFunction"]
    ELSE callstackLine(
            Repeat(" ", idx - 1) \o "[line "
                \o IntToString(st.objs[callstack[idx].n].declaration.name.LineNumber)
                \o "] in " \o ObjToString(st, callstack[idx]),
            callstackToString(st, callstack, idx - 1))

\* The first line of RuntimeError.Error, then the lines of the call stack.
traced(r, trace) ==
    IF trace.panic # "" THEN trace
    ELSE [lines |-> <<IntToString(r.line) \o " at '" \o r.lexeme \o "' " \o r.message>>
                    \o trace.lines,
          panic |-> ""]

\* RuntimeError.Error
Error(st, r) == traced(r, callstackToString(st, r.callstack, Len(r.callstack)))

\* main, case "run": log.Println(runtimeError.Error()) for the runtime error
\* run returned.
logRuntimeError ==
    /\ prog.state = "returned"
    /\ prog.ret.err.type = "*RuntimeError"
    /\ prog' = [prog EXCEPT !.state = "reported", !.report = Error(interp, prog.ret.err)]
    /\ UNCHANGED <<s, scanPc, scanRet, interp, os>>

\* run, after the parser: interpreter := NewInterpreter(nil)
InterpInit ==
    /\ s = IdleScanner
    /\ scanPc = "idle"
    /\ scanRet = IdleScanRet
    /\ os = IdleOs
    /\ \E p \in InterpPrograms :
          /\ prog = LoadProgram(p)
          /\ interp = NewInterpreter([x \in {} |-> 0], p.crossAdd, 0)

InterpNext == runResolve \/ InterpretLoop \/ InterpretReturn \/ logRuntimeError

SpecInterp == InterpInit /\ [][InterpNext]_vars

\* The value a global variable holds.
Global(name) == interp.envs[interp.globals].Values[name]
HasGlobal(name) == name \in DOMAIN interp.envs[interp.globals].Values


\* Interpret has executed the first n statements of the program.
Ran(name, n) == prog.name = name /\ prog.state \in {"running", "returned"} /\ prog.pc > n

\* The program went wrong: the resolver rejected it, the process stopped on a
\* Go panic, a statement did not end, or Interpret returned an error.
WentWrong ==
    \/ prog.state \in {"unresolved", "panicked", "hung", "reported"}
    \/ prog.state = "returned" /\ prog.ret.err # NilError

\* ------------------------------------------------------------------------
\* C1.  A return statement executed in the body of a while or for loop of a
\* user function stops the loop: the loop does not iterate for ever, the
\* call yields the value of the return statement, the body ran once and
\* the statement after the loop did not run.
C1_ReturnLeavesLoop ==
    prog.name = "ReturnInLoop" =>
        /\ prog.state # "hung"
        /\ Ran("ReturnInLoop", 4) =>
              /\ Global("r") = prog.arg[2]
              /\ Global("n") = Number(1)
              /\ interp.stdout = <<>>

\* ------------------------------------------------------------------------
\* C2.  A variable use binds to the declaration visible where the use is
\* written: a function declared in a block reads and assigns the variable
\* of the enclosing scope, not one the block declares after the function.
ScopingOutput(form, outer, inner) ==
    CASE form = "print" -> <<outer>>
      [] form = "nested" -> <<"b">>
      [] form = "assign" -> <<inner, "x">>

C2_LexicalScoping ==
    /\ prog.name = "Scoping" => ~WentWrong
    /\ prog.name = "Scoping" /\ prog.state = "returned" =>
          interp.stdout = ScopingOutput(prog.arg[1], prog.arg[2], prog.arg[3])

C2_Witness ==
    /\ prog.name = "Scoping" /\ prog.state = "returned"
    /\ prog.arg = <<"print", "g", "l">>
    /\ interp.stdout = <<"g">>

\* ------------------------------------------------------------------------
\* C5.  obj.f = e evaluates e exactly once, stores the value of e in the
\* field f of the instance, and the assignment expression has that value.
SetFieldResult(v) ==
    CASE v = "7" -> Number(7)
      [] v = "\"a\"" -> String("a")
      [] v = "1 + 2" -> Number(3)
      [] v = "inc()" -> Number(1)
      [] v = "n" -> Number(0)

C5_SetStoresValue ==
    /\ prog.name = "SetField" => ~WentWrong
    /\ Ran("SetField", 5) =>
          /\ Global("r") = SetFieldResult(prog.arg[1])
          /\ interp.objs[Global("o").n].fields["f"] = SetFieldResult(prog.arg[1])
          /\ Global("n") = Number(IF prog.arg[1] = "inc()" THEN 1 ELSE 0)

\* ------------------------------------------------------------------------
\* C6.  left == right completes without failure for every pair of values
\* and yields a Bool: false for values of different variants, and within a
\* variant equality of the values (nil, booleans, numbers, strings, lists,
\* dictionaries) or identity (functions, classes, instances); left != right
\* yields the negation.
OperandValue(o) ==
    CASE o \in {"[1]", "l1"} -> "list 1"
      [] o \in {"{x: 1}", "d1"} -> "dict x 1"
      [] OTHER -> o

C6_EqualityIsTotal ==
    /\ prog.name = "Equality" => ~WentWrong
    /\ Ran("Equality", 8) =>
          Global("r") = Bool(OperandValue(prog.arg[1]) = OperandValue(prog.arg[2]))
    /\ Ran("Equality", 9) =>
          Global("q") = Bool(OperandValue(prog.arg[1]) # OperandValue(prog.arg[2]))

\* ------------------------------------------------------------------------
\* C7.  A dictionary literal that has two keys of the same text fails with
\* "Duplicate key in dictionary.", on whichever lines the two keys are.
C7_DuplicateKeyFails ==
    prog.name = "DictLiteral" /\ prog.arg[2] = "a" =>
        /\ prog.state \in {"parsed", "running", "returned", "reported"}
        /\ prog.state = "running" => prog.pc = 1
        /\ prog.state = "returned" => prog.ret.err.message = "Duplicate key in dictionary."


\* ------------------------------------------------------------------------
\* C11.  break ends the innermost loop and no other: the rest of that
\* loop's body does not run, its condition is not evaluated again (c counts
\* the evaluations), breakCurrentLoop is false once the loop has ended, and
\* the enclosing loop goes on with the rest of its body and its further
\* iterations.
BreakOutput(form) ==
    CASE form = "late" -> <<"first", "1", "first", "2", "end">>
      [] form = "outer" -> <<"in", "end">>
      [] OTHER -> <<"1", "2", "end">>

C11_BreakEndsInnermostLoop ==
    /\ prog.name = "Break" => ~WentWrong /\ ~interp.breakCurrentLoop
    /\ Ran("Break", 3) =>
          /\ Global("c") = Number(2)
          /\ Global("i") = Number(IF prog.arg[1] = "outer" THEN 1 ELSE 2)
    /\ prog.name = "Break" /\ prog.state = "returned" =>
          interp.stdout = BreakOutput(prog.arg[1])

C11_Witness ==
    /\ prog.name = "Break" /\ prog.state = "returned"
    /\ prog.arg = <<"late">>
    /\ interp.stdout = <<"first", "1", "first", "2", "end">>
    /\ Global("c") = Number(2)

\* ------------------------------------------------------------------------
\* C12.  Short circuit.  For a or b with a truthy, and for a and b with a
\* falsy (nil or false), b is not evaluated (n stays 0) and the result is
\* the value of a; in every other case b is evaluated exactly once (n is 1)
\* and its value is the result.
Falsy == {Nil, Bool(FALSE)}

ShortCircuits(operator, a) ==
    \/ operator = OR /\ a \notin Falsy
    \/ operator = AND /\ a \in Falsy

C12_ShortCircuit ==
    /\ prog.name = "Logical" => ~WentWrong
    /\ Ran("Logical", 2) =>
          IF ShortCircuits(prog.arg[1], prog.arg[2])
          THEN Global("n") = Number(0) /\ Global("r") = prog.arg[2]
          ELSE Global("n") = Number(1) /\ Global("r") = Number(1)

C12_Witness ==
    /\ Ran("Logical", 2)
    /\ prog.arg = <<OR, Number(0)>>
    /\ Global("n") = Number(0) /\ Global("r") = Number(0)

\* ------------------------------------------------------------------------
\* C14.  The call stack is balanced.  When a call expression has finished,
\* normally or with a runtime error, at any depth, callStack is what it was
\* before the call: it is empty between top-level statements and after the
\* failed run, and an error raised in the caller after a call returned
\* holds the caller's stack only.  While a callee runs it is the top entry:
\* the stack an error captures ends with the function that raised it.
CalleeNames(callstack) ==
    [j \in 1..Len(callstack) |->
        IF callstack[j].t = "*LoxFunction"
        THEN interp.objs[callstack[j].n].declaration.name.Lexeme
        ELSE callstack[j].t]

ActiveAtError(form) ==
    CASE form = "inner" -> <<"f", "g">>
      [] form = "deep" -> <<"h", "f", "g">>
      [] form = "back" -> <<"f">>
      [] form = "top" -> <<>>
      [] form = "arity" -> <<"f">>
      [] form = "clock" -> <<"f">>

C14_CallStackBalanced ==
    prog.name = "CallStack" =>
        /\ prog.state \notin {"unresolved", "panicked", "hung"}
        /\ interp.callStack = <<>>
        /\ prog.state = "returned" =>
              /\ prog.ret.err # NilError
              /\ CalleeNames(prog.ret.err.callstack) = ActiveAtError(prog.arg[1])

C14_Witness ==
    /\ prog.name = "CallStack" /\ prog.state = "returned"
    /\ prog.arg = <<"deep">>
    /\ prog.ret.err.message = "Operand must be a number."
    /\ CalleeNames(prog.ret.err.callstack) = <<"h", "f", "g">>
    /\ interp.callStack = <<>>

\* ------------------------------------------------------------------------
\* C15.  A statement leaves the current environment as it found it: after a
\* block, a class declaration with or without superclass, a loop or an if,
\* on normal completion, when a return or a break unwinds, and when a
\* runtime error is raised in the middle, the statements that follow see
\* the environment of before (print a in the outer block prints outer, and
\* env is the global environment after every top-level statement and after
\* the failed run).  A variable declared in a block is not visible after
\* the block.
EnvFails == {"error", "badsuper"}

C15_EnvironmentRestored ==
    prog.name = "Env" =>
        /\ prog.state \notin {"unresolved", "panicked", "hung"}
        /\ interp.env = interp.globals
        /\ prog.state = "returned" =>
              CASE prog.arg[1] \in EnvFails ->
                      prog.ret.err # NilError /\ interp.stdout = <<>>
                [] prog.arg[1] = "gone" ->
                      /\ prog.ret.err.message = "Undefined variable 'z'."
                      /\ interp.stdout = <<"outer">>
                [] OTHER ->
                      prog.ret.err = NilError /\ interp.stdout = <<"outer", "global">>

C15_Witness ==
    /\ prog.name = "Env" /\ prog.state = "returned"
    /\ prog.arg = <<"error">>
    /\ prog.ret.err.message = "Operand must be a number."
    /\ interp.env = interp.globals
    /\ Len(interp.envs) > 2

\* ------------------------------------------------------------------------
\* C16.  A call of a value that is not callable fails with Can only call
\* functions and classes., a call with the wrong number of arguments with
\* Expected N arguments but got M.; the callee's body does not run (nothing
\* is printed), nothing is pushed on the call stack (the error holds the
\* caller's stack), and the callee and every argument were evaluated once
\* each, left to right (the digits of n).
BadCallMessage(form) ==
    CASE form \in {"number", "nil"} -> "Can only call functions and classes."
      [] form = "few" -> "Expected 1 arguments but got 0."
      [] form = "many" -> "Expected 1 arguments but got 2."
      [] form = "class" -> "Expected 1 arguments but got 0."
      [] form = "clock" -> "Expected 0 arguments but got 1."

BadCallMarks(form) ==
    CASE form = "number" -> 123
      [] form = "nil" -> 23
      [] form = "few" -> 1
      [] form = "many" -> 123
      [] form = "class" -> 0
      [] form = "clock" -> 2

C16_CallChecks ==
    prog.name = "BadCall" =>
        /\ prog.state \notin {"unresolved", "panicked", "hung"}
        /\ interp.stdout = <<>>
        /\ prog.state = "returned" =>
              /\ prog.ret.err.message = BadCallMessage(prog.arg[1])
              /\ prog.ret.err.lexeme = ")"
              /\ CalleeNames(prog.ret.err.callstack) = <<"f">>
              /\ Global("n") = Number(BadCallMarks(prog.arg[1]))

C16_Witness ==
    /\ prog.name = "BadCall" /\ prog.state = "returned"
    /\ prog.arg = <<"many">>
    /\ prog.ret.err.message = "Expected 1 arguments but got 2."
    /\ Global("n") = Number(123)

\* ------------------------------------------------------------------------
\* C17.  Producing the message of a runtime error succeeds whatever
\* callables are active (functions, methods, a class under construction),
\* and the message has, after its first line, one line for every active
\* callable, the innermost first, which names that callable.
TraceLines(callable) ==
    {Repeat(" ", indent) \o "[line " \o IntToString(line) \o "] in "
        \o ObjToString(interp, callable) : indent \in 0..3, line \in 0..3}

C17_ErrorTrace ==
    prog.name = "Trace" =>
        /\ prog.state \notin {"unresolved", "panicked", "hung"}
        /\ prog.state = "reported" =>
              LET callstack == prog.ret.err.callstack
                  lines == prog.report.lines
              IN  /\ prog.report.panic = ""
                  /\ Len(lines) = 1 + Len(callstack)
                  /\ lines[1] = "3 at '-' Operand must be a number."
                  /\ \A j \in 1..Len(callstack) :
                        lines[1 + j] \in TraceLines(callstack[Len(callstack) + 1 - j])

\* ------------------------------------------------------------------------
\* C19.  A dictionary literal evaluates the values of its entries in source
\* order in every run: the effects of the values come in that order (n is
\* 12), and when two entries would fail, the error is that of the first.
C19_DictionaryOrder ==
    prog.name = "DictOrder" =>
        /\ prog.state \notin {"unresolved", "panicked", "hung"}
        /\ prog.arg = <<"effects">> =>
              /\ prog.state \notin {"returned", "reported"} \/ prog.ret.err = NilError
              /\ Ran("DictOrder", 2) => Global("n") = Number(12)
        /\ prog.arg = <<"errors">> /\ prog.state = "returned" =>
              prog.ret.err.message = "Operand must be a number."

(***************************************************************************)
(* The driver, cmd/myinterpreter/main.go.  os.Args is the argument vector, *)
(* each argument the sequence of its bytes; os.pc the position in main     *)
(* ("start", "command", "exit", then "exited", "panicked" or "hung"),      *)
(* os.exit the exit code of the process, os.stdout the lines written to    *)
(* standard output and os.logged the texts handed to log.Println, each the *)
(* list of its lines.                                                      *)
(*                                                                         *)
(* The scanner the driver calls (its ScanTokens returns an error), the     *)
(* parser and the tree printer are not among the sources, so a file stands *)
(* for what they make of it: the tokens and the error of ScanTokens, the   *)
(* result of Parser.Parse, of Parser.Expression and of AstPrinter.Print.   *)
(***************************************************************************)
commandMap == {"tokenize", "parse", "evaluate", "run"}

\* Programs that print p and end in a statement of one kind each.
LastFiles ==
    {"lastexpr.lox", "lastvar.lox", "lastfun.lox", "lastclass.lox", "lastblock.lox",
     "lastif.lox", "lastwhile.lox"}

Files ==
    {"scanerr.lox", "parseerr.lox", "resolveerr.lox", "add.lox", "addexpr.lox",
     "ok.lox", "expr.lox", "panic.lox", "initerr.lox", "superexpr.lox"} \cup LastFiles

ParseError(message) == [type |-> "*ParseError", message |-> message]

AddExpr == BinaryExpr(100, L(String("a")), Op(PLUS, 1), L(Number(1)))

\*  lastexpr.lox    print "p"; 1 + 2;
\*  lastvar.lox     print "p"; var a = 1;
\*  lastfun.lox     print "p"; fun f() {}
\*  lastclass.lox   print "p"; class K {}
\*  lastblock.lox   print "p"; { var a = 1; }
\*  lastif.lox      print "p"; if (true) 1;
\*  lastwhile.lox   print "p"; while (false) {}
LastStatement(filename) ==
    CASE filename = "lastexpr.lox" -> ExpressionStmt(Bin(L(Number(1)), PLUS, L(Number(2))))
      [] filename = "lastvar.lox" -> VarStmt(Name("a", 1), L(Number(1)))
      [] filename = "lastfun.lox" -> Fun("f", <<>>, <<>>)
      [] filename = "lastclass.lox" -> ClassStmt(Name("K", 1), NoNode, <<>>)
      [] filename = "lastblock.lox" -> BlockStmt(<<VarStmt(Name("a", 1), L(Number(1)))>>)
      [] filename = "lastif.lox" -> IfStmt(L(Bool(TRUE)), ExpressionStmt(L(Number(1))), NoNode)
      [] filename = "lastwhile.lox" -> WhileStmt(7, L(Bool(FALSE)), BlockStmt(<<>>))

\* A token of the scanner: a keyword or a punctuation mark, a number, a
\* string and the end of the file.
Lex(type) == Op(type, 1)
Num(text, x) == [Type |-> NUMBER, Lexeme |-> text, Literal |-> Number(x), LineNumber |-> 1]
Str(text) ==
    [Type |-> STRING_T, Lexeme |-> "\"" \o text \o "\"", Literal |-> String(text),
     LineNumber |-> 1]
EndOfFile == [Type |-> EOF, Lexeme |-> "", Literal |-> Nil, LineNumber |-> 1]

LastTokens(filename) ==
    CASE filename = "lastexpr.lox" ->
            <<Num("1", 1), Lex(PLUS), Num("2", 2), Lex(SEMICOLON)>>
      [] filename = "lastvar.lox" ->
            <<Lex(VAR), Name("a", 1), Lex(EQUAL), Num("1", 1), Lex(SEMICOLON)>>
      [] filename = "lastfun.lox" ->
            <<Lex(FUN), Name("f", 1), Lex(LEFT_PAREN), Lex(RIGHT_PAREN), Lex(LEFT_BRACE),
              Lex(RIGHT_BRACE)>>
      [] filename = "lastclass.lox" ->
            <<Lex(CLASS), Name("K", 1), Lex(LEFT_BRACE), Lex(RIGHT_BRACE)>>
      [] filename = "lastblock.lox" ->
            <<Lex(LEFT_BRACE), Lex(VAR), Name("a", 1), Lex(EQUAL), Num("1", 1),
              Lex(SEMICOLON), Lex(RIGHT_BRACE)>>
      [] filename = "lastif.lox" ->
            <<Lex(IF_T), Lex(LEFT_PAREN), Lex(TRUE_T), Lex(RIGHT_PAREN), Num("1", 1),
              Lex(SEMICOLON)>>
      [] filename = "lastwhile.lox" ->
            <<Lex(WHILE), Lex(LEFT_PAREN), Lex(FALSE_T), Lex(RIGHT_PAREN), Lex(LEFT_BRACE),
              Lex(RIGHT_BRACE)>>

\*  scanerr.lox     "abc                  addexpr.lox   "a" + 1
\*  parseerr.lox    print ;               ok.lox        print 1;
\*  resolveerr.lox  return 1;             expr.lox      1 + 2
\*  add.lox         print "a" + 1;        panic.lox     print {} == {};
\*  initerr.lox     class K { init() { -"x"; } } K();
\*  superexpr.lox   super.m
\* The tokens ScanTokens returns, before the token of the end of the file.
FileTokens(filename) ==
    CASE filename = "scanerr.lox" -> <<>>
      [] filename = "parseerr.lox" -> <<Lex(PRINT), Lex(SEMICOLON)>>
      [] filename = "resolveerr.lox" -> <<Lex(RETURN), Num("1", 1), Lex(SEMICOLON)>>
      [] filename = "add.lox" ->
            <<Lex(PRINT), Str("a"), Lex(PLUS), Num("1", 1), Lex(SEMICOLON)>>
      [] filename = "addexpr.lox" -> <<Str("a"), Lex(PLUS), Num("1", 1)>>
      [] filename = "ok.lox" -> <<Lex(PRINT), Num("1", 1), Lex(SEMICOLON)>>
      [] filename = "expr.lox" -> <<Num("1", 1), Lex(PLUS), Num("2", 2)>>
      [] filename = "panic.lox" ->
            <<Lex(PRINT), Lex(LEFT_BRACE), Lex(RIGHT_BRACE), Lex(EQUAL_EQUAL),
              Lex(LEFT_BRACE), Lex(RIGHT_BRACE), Lex(SEMICOLON)>>
      [] filename = "initerr.lox" ->
            <<Lex(CLASS), Name("K", 1), Lex(LEFT_BRACE), Name("init", 1), Lex(LEFT_PAREN),
              Lex(RIGHT_PAREN), Lex(LEFT_BRACE), Lex(MINUS), Str("x"), Lex(SEMICOLON),
              Lex(RIGHT_BRACE), Lex(RIGHT_BRACE), Name("K", 1), Lex(LEFT_PAREN),
              Lex(RIGHT_PAREN), Lex(SEMICOLON)>>
      [] filename = "superexpr.lox" -> <<Lex(SUPER), Lex(DOT), Name("m", 1)>>
      [] filename \in LastFiles ->
            <<Lex(PRINT), Str("p"), Lex(SEMICOLON)>> \o LastTokens(filename)

\* The error ScanTokens returns to the driver.
FileScan(filename) ==
    IF filename = "scanerr.lox"
    THEN [type |-> "*errors.errorString", message |-> "Unterminated string"]
    ELSE NoError

NoStatements(message) == [err |-> ParseError(message), statements |-> <<>>]
NoExpression == [err |-> ParseError("Expect expression."), expression |-> NoNode]

\* The result of Parser.Parse.
FileParse(filename) ==
    CASE filename = "scanerr.lox" -> [err |-> NoError, statements |-> <<>>]
      [] filename = "parseerr.lox" -> NoStatements("Expect expression.")
      [] filename \in {"addexpr.lox", "expr.lox", "superexpr.lox"} ->
            NoStatements("Expect ';' after expression.")
      [] filename = "resolveerr.lox" ->
            [err |-> NoError, statements |-> <<ReturnStmt(Op(RETURN, 1), L(Number(1)))>>]
      [] filename = "add.lox" -> [err |-> NoError, statements |-> <<PrintStmt(AddExpr)>>]
      [] filename = "ok.lox" ->
            [err |-> NoError, statements |-> <<PrintStmt(L(Number(1)))>>]
      [] filename = "panic.lox" ->
            [err |-> NoError,
             statements |-> <<PrintStmt(Bin(DictionaryExpr(0, [x \in {} |-> NoNode]),
                                            EQUAL_EQUAL,
                                            DictionaryExpr(0, [x \in {} |-> NoNode])))>>]
      [] filename = "initerr.lox" ->
            [err |-> NoError,
             statements |-> <<ClassStmt(Name("K", 1), NoNode,
                                        <<Fun("init", <<>>, <<Fails(300)>>)>>),
                              ExpressionStmt(CallOf(V(301, "K"), <<>>))>>]
      [] filename \in LastFiles ->
            [err |-> NoError,
             statements |-> <<PrintStmt(L(String("p"))), LastStatement(filename)>>]

\* The result of Parser.Expression.
FileExpression(filename) ==
    CASE filename = "scanerr.lox" -> [err |-> NoError, expression |-> NoNode]
      [] filename = "addexpr.lox" -> [err |-> NoError, expression |-> AddExpr]
      [] filename = "expr.lox" ->
            [err |-> NoError, expression |-> Bin(L(Number(1)), PLUS, L(Number(2)))]
      [] filename = "superexpr.lox" ->
            [err |-> NoError, expression |-> SuperExpr(320, Op(SUPER, 1), Name("m", 1))]
      [] OTHER -> NoExpression

\* The result of AstPrinter.Print for the expression of the file: the text
\* of the tree, here in the prefix form (+ 1.0 2.0), and no error.
FilePrint(filename) ==
    CASE filename = "addexpr.lox" -> [err |-> NoError, v |-> "(+ a 1.0)"]
      [] filename = "expr.lox" -> [err |-> NoError, v |-> "(+ 1.0 2.0)"]
      [] filename = "superexpr.lox" -> [err |-> NoError, v |-> "(super m)"]
      [] OTHER -> [err |-> NoError, v |-> ""]

FileTable(filename) ==
    [scan |-> FileScan(filename),
     Tokens |-> FileTokens(filename) \o <<EndOfFile>>,
     Parse |-> FileParse(filename),
     Expression |-> FileExpression(filename),
     AstPrint |-> FilePrint(filename)]

\* A Go string is the sequence of its bytes; Text is the string of the model.
RECURSIVE Text(_)
Text(bytes) == IF bytes = <<>> THEN "" ELSE Head(bytes) \o Text(Tail(bytes))

\* strconv.ParseBool
TrueTexts == {"1", "t", "T", "TRUE", "true", "True"}
FalseTexts == {"0", "f", "F", "FALSE", "false", "False"}

\* FlagSet.parseOne on the argument: the minus signs, the name up to the
\* first = after its first byte, and the value behind it.
flagSyntax(arg) ==
    LET minuses == IF arg[2] = "-" THEN 2 ELSE 1
        name    == SubSeq(arg, minuses + 1, Len(arg))
        equals  == Least({i \in 2..(Len(name) + 1) : i = Len(name) + 1 \/ name[i] = "="})
    IN  [bad |-> name = <<>> \/ name[1] \in {"-", "="},
         name |-> Text(SubSeq(name, 1, equals - 1)),
         hasValue |-> equals <= Len(name),
         value |-> Text(SubSeq(name, equals + 1, Len(name)))]

\* flag.Parse over os.Args[1:] with the one flag -cross-add defined, a
\* bool: a leading run of flags, ended by the first argument that is not
\* a flag or by "--".  The result is the value of the flag and the exit
\* code flag.Parse ends the process with, -1 when it returns: 2 for a flag
\* of bad syntax, a flag that is not defined and a value that is no bool
\* (which sets the flag to false), 0 for -h and -help.
RECURSIVE flagParse(_, _, _)
flagParse(args, idx, crossAdd) ==
    CASE idx > Len(args) -> [UseCrossAdd |-> crossAdd, exit |-> -1]
      [] Len(args[idx]) < 2 \/ args[idx][1] # "-" -> [UseCrossAdd |-> crossAdd, exit |-> -1]
      [] args[idx] = <<"-", "-">> -> [UseCrossAdd |-> crossAdd, exit |-> -1]
      [] flagSyntax(args[idx]).bad -> [UseCrossAdd |-> crossAdd, exit |-> 2]
      [] flagSyntax(args[idx]).name \in {"help", "h"} ->
            [UseCrossAdd |-> crossAdd, exit |-> 0]
      [] flagSyntax(args[idx]).name # "cross-add" -> [UseCrossAdd |-> crossAdd, exit |-> 2]
      [] ~flagSyntax(args[idx]).hasValue -> flagParse(args, idx + 1, TRUE)
      [] flagSyntax(args[idx]).value \in TrueTexts -> flagParse(args, idx + 1, TRUE)
      [] flagSyntax(args[idx]).value \in FalseTexts -> flagParse(args, idx + 1, FALSE)
      [] OTHER -> [UseCrossAdd |-> FALSE, exit |-> 2]

\* The error Interpret or Evaluate returned, as main sees it: its dynamic
\* type, which err.(*lox.RuntimeError) tests, and the text of err.Error().
ReturnedError(st) == [type |-> st.err.type, message |-> st.err.message]

RECURSIVE Interpret(_, _, _), interpretNext(_, _, _)
\* Interpreter.Interpret, from the idx-th statement on.
Interpret(statements, idx, st) ==
    IF idx > Len(statements) THEN st
    ELSE interpretNext(statements, idx, execute(statements[idx], [st EXCEPT !.steps = 0]))

\* if _err != nil { return nil, _err }, else on to the next statement.
interpretNext(statements, idx, s1) ==
    IF Failed(s1) THEN s1 ELSE Interpret(statements, idx + 1, s1)

\* The outcome of a command: the interpreter it ran, the error it returned
\* and the lines it printed after the interpreter's own.
Outcome(st, err, printed) == [st |-> st, err |-> err, printed |-> printed]

\* The line tokenize prints for a token: the type (strings.ToUpper leaves
\* the types of token.go as they are), the lexeme and the literal: null,
\* the text of a string, %.1f of an integral number and %g of another.
tokenLine(t) ==
    t.Type \o " " \o t.Lexeme \o " " \o
        (CASE t.Literal = Nil -> "null"
           [] t.Type = STRING_T -> t.Literal.s
           [] t.Literal.d = 1 -> FormatInteger(t.Literal) \o ".0"
           [] OTHER -> FormatShortest(t.Literal))

tokenize(file, st) ==
    Outcome(st, file.scan, [j \in 1..Len(file.Tokens) |-> tokenLine(file.Tokens[j])])

parse(file, st) ==
    CASE file.scan # NoError -> Outcome(st, file.scan, <<>>)
      [] file.Expression.err # NoError -> Outcome(st, file.Expression.err, <<>>)
      [] file.AstPrint.err # NoError -> Outcome(st, file.AstPrint.err, <<>>)
      [] OTHER -> Outcome(st, NoError, <<file.AstPrint.v>>)

\* evaluate after v, err := interpreter.Evaluate(expr)
evaluated(s1) ==
    CASE s1.panic # "" \/ s1.hang -> Outcome(s1, NoError, <<>>)
      [] Failed(s1) -> Outcome(s1, ReturnedError(s1), <<>>)
      [] OTHER -> Outcome(s1, NoError, <<Stringify(s1, s1.value)>>)

evaluate(file, st) ==
    CASE file.scan # NoError -> Outcome(st, file.scan, <<>>)
      [] file.Expression.err # NoError -> Outcome(st, file.Expression.err, <<>>)
      [] OTHER -> evaluated(Evaluate(file.Expression.expression, st))

\* run after v, err := interpreter.Interpret(statements)
interpreted(s1) ==
    CASE s1.panic # "" \/ s1.hang -> Outcome(s1, NoError, <<>>)
      [] Failed(s1) -> Outcome(s1, ReturnedError(s1), <<>>)
      [] s1.value # Nil -> Outcome(s1, NoError, <<Stringify(s1, s1.value)>>)
      [] OTHER -> Outcome(s1, NoError, <<>>)

\* run after err = resolver.Resolve(statements...)
runResolved(file, st, r) ==
    IF Unresolved(r)
    THEN Outcome([st EXCEPT !.localsTable = r.locals],
                 [type |-> "error", message |-> r.errors[1]], <<>>)
    ELSE interpreted(Interpret(file.Parse.statements, 1,
                               [st EXCEPT !.localsTable = r.locals]))

run(file, st) ==
    CASE file.scan # NoError -> Outcome(st, file.scan, <<>>)
      [] file.Parse.err # NoError -> Outcome(st, file.Parse.err, <<>>)
      [] OTHER -> runResolved(file, st, Resolve(file.Parse.statements))

Exit(code) == [os EXCEPT !.pc = "exited", !.exit = code]

\* main, up to the switch on the command.
mainStart ==
    /\ os.pc = "start"
    /\ LET flags == flagParse(os.Args, 2, FALSE)
       IN  os' = CASE flags.exit # -1 ->
                         [Exit(flags.exit) EXCEPT !.UseCrossAdd = flags.UseCrossAdd]
                   [] Len(os.Args) < 3 -> [Exit(1) EXCEPT !.UseCrossAdd = flags.UseCrossAdd]
                   [] Text(os.Args[2]) \notin commandMap ->
                         [Exit(1) EXCEPT !.UseCrossAdd = flags.UseCrossAdd]
                   [] Text(os.Args[3]) \notin Files ->
                         [Exit(1) EXCEPT !.UseCrossAdd = flags.UseCrossAdd,
                                         !.command = Text(os.Args[2]),
                                         !.filename = Text(os.Args[3])]
                   [] OTHER ->
                         [os EXCEPT !.pc = "command", !.UseCrossAdd = flags.UseCrossAdd,
                                    !.command = Text(os.Args[2]),
                                    !.filename = Text(os.Args[3])]
    /\ UNCHANGED <<s, scanPc, scanRet, interp, prog>>

\* switch command { case "tokenize": err = tokenize(scanner) ... }
command(file, st) ==
    CASE os.command = "tokenize" -> tokenize(file, st)
      [] os.command = "parse" -> parse(file, st)
      [] os.command = "evaluate" -> evaluate(file, st)
      [] os.command = "run" -> run(file, st)

\* main after the command returned out; a panic of the interpreter ends the
\* process with the exit code 2.
commandDone(out) ==
    /\ interp' = [out.st EXCEPT !.mapOrder = <<>>, !.steps = 0]
    /\ os' = [os EXCEPT !.pc = CASE out.st.panic # "" -> "panicked"
                                  [] out.st.hang -> "hung"
                                  [] OTHER -> "exit",
                        !.exit = IF out.st.panic # "" THEN 2 ELSE @,
                        !.err = out.err,
                        !.stdout = out.st.stdout \o out.printed]

\* The call of tokenize, parse, evaluate or run.
mainCommand ==
    /\ os.pc = "command"
    /\ \E orders \in RangeOrders(FileTable(os.filename).Parse.statements
                                  \o <<FileTable(os.filename).Expression.expression>>) :
          commandDone(command(FileTable(os.filename),
                              [NewInterpreter([x \in {} |-> 0], os.UseCrossAdd, 0)
                                  EXCEPT !.mapOrder = orders]))
    /\ UNCHANGED <<s, scanPc, scanRet, prog>>

\* log.Println(text) and os.Exit(code); a text that could not be made,
\* because Error panicked, ends the process with the exit code 2 of a panic.
logExit(report, code) ==
    IF report.panic # "" THEN [os EXCEPT !.pc = "panicked", !.exit = 2]
    ELSE [Exit(code) EXCEPT !.logged = Append(@, report.lines)]

\* err.Error() of an error that is no *RuntimeError
ErrorText(err) == [lines |-> <<err.message>>, panic |-> ""]

\* The exit code the command's error leads to.
mainExit ==
    /\ os.pc = "exit"
    /\ os' = CASE os.err = NoError -> Exit(0)
               [] os.command = "tokenize" -> Exit(65)
               [] os.command = "parse" -> logExit(ErrorText(os.err), 65)
               [] os.command = "evaluate" -> Exit(70)
               [] os.err.type = "*ParseError" -> logExit(ErrorText(os.err), 65)
               [] os.err.type = "*RuntimeError" -> logExit(Error(interp, interp.err), 70)
               [] OTHER -> logExit(ErrorText(os.err), 75)
    /\ UNCHANGED <<s, scanPc, scanRet, interp, prog>>

\* The argument vectors: the program, then flags, a command and a file in
\* the orders a user may type them.
Commands ==
    {<<"t", "o", "k", "e", "n", "i", "z", "e">>,
     <<"p", "a", "r", "s", "e">>,
     <<"e", "v", "a", "l", "u", "a", "t", "e">>,
     <<"r", "u", "n">>,
     <<"b", "o", "g", "u", "s">>}
FileNames ==
    {base \o <<".", "l", "o", "x">> :
        base \in {<<"s", "c", "a", "n", "e", "r", "r">>,
                  <<"p", "a", "r", "s", "e", "e", "r", "r">>,
                  <<"r", "e", "s", "o", "l", "v", "e", "e", "r", "r">>,
                  <<"a", "d", "d">>,
                  <<"a", "d", "d", "e", "x", "p", "r">>,
                  <<"o", "k">>,
                  <<"e", "x", "p", "r">>,
                  <<"p", "a", "n", "i", "c">>,
                  <<"i", "n", "i", "t", "e", "r", "r">>,
                  <<"s", "u", "p", "e", "r", "e", "x", "p", "r">>,
                  <<"l", "a", "s", "t", "e", "x", "p", "r">>,
                  <<"l", "a", "s", "t", "v", "a", "r">>,
                  <<"l", "a", "s", "t", "f", "u", "n">>,
                  <<"l", "a", "s", "t", "c", "l", "a", "s", "s">>,
                  <<"l", "a", "s", "t", "b", "l", "o", "c", "k">>,
                  <<"l", "a", "s", "t", "i", "f">>,
                  <<"l", "a", "s", "t", "w", "h", "i", "l", "e">>,
                  <<"m", "i", "s", "s", "i", "n", "g">>}}
CrossAddFlag == <<"-", "-", "c", "r", "o", "s", "s", "-", "a", "d", "d">>
FlagArgs ==
    {CrossAddFlag, Tail(CrossAddFlag),
     CrossAddFlag \o <<"=", "f", "a", "l", "s", "e">>, CrossAddFlag \o <<"=", "t", "r", "u", "e">>,
     Tail(CrossAddFlag) \o <<"=", "1">>, CrossAddFlag \o <<"=", "b", "o", "g", "u", "s">>,
     <<"-", "-">>, <<"-">>, <<"-", "v">>, <<"-", "x">>, <<"-", "h">>,
     <<"-", "-", "h", "e", "l", "p">>, <<"-", "-", "-", "x">>, <<"-", "=", "x">>}
Lox == <<"l", "o", "x">>

ArgVectors ==
    {<<Lox>>, <<Lox, <<"r", "u", "n">>>>}
        \cup {<<Lox, a>> : a \in FlagArgs}
        \cup {<<Lox, a, a2>> : a \in {CrossAddFlag, CrossAddFlag \o <<"=", "b", "o", "g", "u", "s">>},
                               a2 \in FlagArgs}
        \cup {<<Lox, c, f>> : c \in Commands, f \in FileNames}
        \cup {<<Lox, a, c, f>> : a \in FlagArgs, c \in Commands, f \in FileNames}
        \cup {<<Lox, c, a, f>> : a \in FlagArgs, c \in Commands, f \in FileNames}
        \cup {<<Lox, c, f, a>> : a \in FlagArgs, c \in Commands, f \in FileNames}

\* The argument vector of a command line given as texts.
Bytes(text) == CHOOSE arg \in {Lox} \cup Commands \cup FileNames \cup FlagArgs : Text(arg) = text
Argv(texts) == [j \in 1..Len(texts) |-> Bytes(texts[j])]

MainInit ==
    /\ s = IdleScanner
    /\ scanPc = "idle"
    /\ scanRet = IdleScanRet
    /\ interp = IdleInterp
    /\ prog = IdleProg
    /\ \E args \in ArgVectors : os = [IdleOs EXCEPT !.Args = args, !.pc = "start"]

MainNext == mainStart \/ mainCommand \/ mainExit

SpecMain == MainInit /\ [][MainNext]_vars

\* ------------------------------------------------------------------------
\* C3.  lox --cross-add <command> <file> runs the command with
\* cross-addition on, so that "a" + 1 prints a1; without the flag the same
\* program ends in a runtime error and the exit code 70.
C3_CrossAddFlag ==
    os.pc = "exited" =>
        /\ os.Args = Argv(<<"lox", "--cross-add", "run", "add.lox">>) =>
              os.exit = 0 /\ os.stdout = <<"a1">>
        /\ os.Args = Argv(<<"lox", "--cross-add", "evaluate", "addexpr.lox">>) =>
              os.exit = 0 /\ os.stdout = <<"a1">>
        /\ os.Args = Argv(<<"lox", "run", "add.lox">>) => os.exit = 70
        /\ os.Args = Argv(<<"lox", "evaluate", "addexpr.lox">>) => os.exit = 70

\* ------------------------------------------------------------------------
\* C4.  The exit code of run is that of the first stage that fails: 65 for
\* the scanner, the parser and the resolver, 70 for a runtime error of the
\* interpreter, 0 when no stage fails.
RunExit(filename) ==
    CASE filename \in {"scanerr.lox", "parseerr.lox", "addexpr.lox", "expr.lox",
                       "superexpr.lox", "resolveerr.lox"} -> 65
      [] filename \in {"add.lox", "initerr.lox"} -> 70
      [] filename \in {"ok.lox"} \cup LastFiles -> 0

C4_RunExitCodes ==
    os.pc \in {"exited", "panicked"} /\ Len(os.Args) = 3 /\ os.command = "run"
            /\ os.filename \in Files \ {"panic.lox"}
        => os.exit = RunExit(os.filename)

(***************************************************************************)
(* The scanner on its own: NewScanner(source) followed by ScanTokens.      *)
(***************************************************************************)
ScanInit ==
    /\ \E source \in ScanSources : s = NewScanner(source)
    /\ scanPc = "loop"
    /\ scanRet = IdleScanRet
    /\ interp = IdleInterp
    /\ prog = IdleProg
    /\ os = IdleOs

ScanNext == ScanTokensLoop \/ ScanTokensReturn

SpecScan == ScanInit /\ [][ScanNext]_vars

RECURSIVE Lexemes(_)
\* The lexemes of a token list, concatenated in order.
Lexemes(tokens) ==
    IF tokens = <<>> THEN <<>> ELSE Head(tokens).Lexeme \o Lexemes(Tail(tokens))

Whitespace == {" ", "\r", "\t", "\n"}
Significant(source) == SelectSeq(source, LAMBDA c : c \notin Whitespace)

\* ------------------------------------------------------------------------
\* C8.  Scanning the lower-case spelling of a keyword as a whole word
\* yields one token of the type of that keyword, never an IDENTIFIER.
KeywordType(text) ==
    CASE text = <<"a","n","d">> -> AND
      [] text = <<"c","l","a","s","s">> -> CLASS
      [] text = <<"e","l","s","e">> -> ELSE_T
      [] text = <<"f","a","l","s","e">> -> FALSE_T
      [] text = <<"f","u","n">> -> FUN
      [] text = <<"f","o","r">> -> FOR
      [] text = <<"i","f">> -> IF_T
      [] text = <<"n","i","l">> -> NIL
      [] text = <<"o","r">> -> OR
      [] text = <<"p","r","i","n","t">> -> PRINT
      [] text = <<"r","e","t","u","r","n">> -> RETURN
      [] text = <<"s","u","p","e","r">> -> SUPER
      [] text = <<"t","h","i","s">> -> THIS
      [] text = <<"t","r","u","e">> -> TRUE_T
      [] text = <<"v","a","r">> -> VAR
      [] text = <<"w","h","i","l","e">> -> WHILE
      [] text = <<"b","r","e","a","k">> -> "BREAK"

C8_KeywordsScanAsKeywords ==
    scanPc = "returned" /\ s.Source \in Keywords =>
        /\ Len(scanRet.Tokens) = 2
        /\ scanRet.Tokens[1].Type = KeywordType(s.Source)
        /\ scanRet.Tokens[1].Lexeme = s.Source

\* ------------------------------------------------------------------------
\* C9.  For a source of identifiers, numbers, operators and whitespace (no
\* comment, string or illegal character) the lexemes of the tokens,
\* concatenated in order, are the source without its whitespace, and every
\* maximal run [A-Za-z_][A-Za-z0-9_]* is one token whose lexeme is the run.
Plain(source) ==
    /\ \A j \in 1..Len(source) : source[j] \notin {"\"", "@"}
    /\ \A j \in 1..(Len(source) - 1) : ~(source[j] = "/" /\ source[j + 1] = "/")

\* The maximal runs of the source: <<first, last>>.
Words(source) ==
    {w \in (1..Len(source)) \X (1..Len(source)) :
        /\ w[1] <= w[2]
        /\ isAlphabet(source[w[1]])
        /\ \A j \in w[1]..w[2] : isAlphaNumeric(source[j])
        /\ w[1] = 1 \/ ~isAlphaNumeric(source[w[1] - 1])
        /\ w[2] = Len(source) \/ ~isAlphaNumeric(source[w[2] + 1])}

C9_ScannerRoundTrip ==
    scanPc = "returned" /\ Plain(s.Source) =>
        /\ Lexemes(scanRet.Tokens) = Significant(s.Source)
        /\ \A w \in Words(s.Source) :
              \E j \in 1..Len(scanRet.Tokens) :
                  scanRet.Tokens[j].Lexeme = SubSeq(s.Source, w[1], w[2])

\* ------------------------------------------------------------------------
\* C10.  When a string of the source is never closed, so that
\* Scanner.string returns its error Unterminated string, the caller of
\* ScanTokens receives that error.
C10_UnterminatedStringReported ==
    scanPc = "returned"
        /\ (\E j \in 1..Len(scanRet.dropped) : scanRet.dropped[j] = "Unterminated string")
      => scanRet.err = "Unterminated string"

\* ------------------------------------------------------------------------
\* C18.  When a program runs without error, Interpret returns the nil
\* value, whatever the kind of its last statement (expression, var, fun,
\* class, block, if, while), so that run writes to standard output what
\* the print statements wrote and nothing else.
C18_InterpretReturnsNil ==
    os.pc = "exited" /\ os.command = "run" /\ os.filename \in LastFiles /\ os.exit = 0 =>
        /\ interp.value = Nil
        /\ os.stdout = <<"p">>

\* ------------------------------------------------------------------------
\* C13.  Whatever the source, illegal characters and unterminated strings
\* included, the loop of ScanTokens adds no EOF token, and the token list
\* ScanTokens returns holds exactly one EOF token, its last element.
EOFs(tokens) == {j \in 1..Len(tokens) : tokens[j].Type = EOF}

C13_ExactlyOneEOFLast ==
    /\ scanPc = "loop" => EOFs(s.Tokens) = {}
    /\ scanPc = "returned" =>
          /\ scanRet.Tokens # <<>>
          /\ EOFs(scanRet.Tokens) = {Len(scanRet.Tokens)}

C13_Witness ==
    /\ scanPc = "returned"
    /\ s.Source = <<"@", "a", "\"", "r">>
    /\ scanRet.dropped = <<"Unexpected Character.", "Unterminated string">>
    /\ Len(scanRet.Tokens) = 2
    /\ scanRet.Tokens[2].Type = EOF

====
